---------------------------- MODULE Spec2Model ----------------------------
(***************************************************************************)
(* The string kernels of datafusion's physical plan                        *)
(* (rust/datafusion/src/physical_plan/string_expressions.rs) as a state    *)
(* machine: one action per kernel, which draws an argument list from a     *)
(* bounded set, evaluates the kernel on it and records the outcome.        *)
(*                                                                         *)
(* Representation.                                                         *)
(*   string        a sequence of Unicode code points (integers)            *)
(*   Option<T>     <<>> for None, <<x>> for Some(x)                        *)
(*   i64 / i32     <<hi, lo>>: the upper and the lower 32 bits, each held  *)
(*                 as the signed reading of its bit pattern, so the value  *)
(*                 is hi * 2^32 + (lo mod 2^32)                            *)
(*   array         [dt |-> data type, rows |-> sequence of options]        *)
(*   ColumnarValue [cv |-> "Array", dt, rows] or [cv |-> "Scalar", dt, val]*)
(*   fn, tp        the kernel called and the type parameter T it is        *)
(*                 instantiated with ("none" for a kernel without one)     *)
(*   Result        [tag |-> "Ok", val], [tag |-> "Internal", msg],         *)
(*                 [tag |-> "Execution", msg]; a panic (an abort of the    *)
(*                 call instead of an Err) is [tag |-> "Panic", msg]       *)
(***************************************************************************)
EXTENDS Integers, Sequences, FiniteSets, TLC

VARIABLES fn, tp, args, res

vars == <<fn, tp, args, res>>

----------------------------------------------------------------------------
(* Bounds of the model. *)

\* largest number of rows of a batch given to a fixed-arity kernel
MaxRows == 2

\* largest number of rows of a batch given to concat
VarRows == 1

\* largest number of arguments of a concat_ws call, and largest number of
\* values (arguments times rows) in one
WsCells == 4

\* largest number of arguments of a concat call
ConcatArgs == 3

\* largest number of arguments given to upper and lower beyond the first
CaseExtra == 1

\* longest string given to reverse
RevLen == 3

\* largest number of arguments given beyond a kernel's largest arity
ShapeExtra == 1

\* longest string given to substr alone
SubLen == 3

\* longest string given to left and right alone
SideLen == 3

\* longest string given to lpad and rpad alone
PadLen == 3

----------------------------------------------------------------------------
(* Options, results, integers. *)

None == <<>>

Some(x) == <<x>>

IsSome(o) == o # <<>>

Unwrap(o) == o[1]

Ok(v) == [tag |-> "Ok", val |-> v]

Internal(m) == [tag |-> "Internal", msg |-> m]

Execution(m) == [tag |-> "Execution", msg |-> m]

Panic(m) == [tag |-> "Panic", msg |-> m]

IsErr(r) == r.tag # "Ok"

\* the i64 (or i32) whose value is the small integer n
I64(n) == <<IF n < 0 THEN -1 ELSE 0, n>>

\* the upper and the lower 32 bits of an integer
Hi(x) == x[1]

Lo(x) == x[2]

Array(dt, rows) == [dt |-> dt, rows |-> rows]

ArrayCV(dt, rows) == [cv |-> "Array", dt |-> dt, rows |-> rows]

ScalarCV(dt, val) == [cv |-> "Scalar", dt |-> dt, val |-> val]

\* Iterator::collect::<Result<_>>(): the first Err of the rows, else the rows
RECURSIVE FirstErr(_)
FirstErr(rs) ==
    IF rs = <<>> THEN None
    ELSE IF IsErr(Head(rs)) THEN Some(Head(rs))
    ELSE FirstErr(Tail(rs))

CollectResult(dt, rs) ==
    IF IsSome(FirstErr(rs)) THEN Unwrap(FirstErr(rs))
    ELSE Ok(Array(dt, [i \in 1..Len(rs) |-> rs[i].val]))

\* the arrays of r rows of data type dt with values in vals
Arrays(dt, vals, r) == {Array(dt, rw) : rw \in [1..r -> vals]}

\* the argument lists of n such arrays
ArrayLists(dt, vals, r, n) == [1..n -> Arrays(dt, vals, r)]

----------------------------------------------------------------------------
(* concat_ws *)

\* the loop over arguments 1..N of one row (TLA+ positions 2..Len(as))
RECURSIVE ConcatWsLoop(_, _, _, _, _)
ConcatWsLoop(as, index, sep, arg_index, owned_string) ==
    IF arg_index > Len(as) THEN owned_string
    ELSE LET arg == as[arg_index]
             pushed == IF IsSome(arg.rows[index])
                       THEN owned_string \o Unwrap(arg.rows[index])
                                \o (IF arg_index # Len(as) THEN sep ELSE <<>>)
                       ELSE owned_string
         IN  ConcatWsLoop(as, index, sep, arg_index + 1, pushed)

\* concat_ws with a null separator read as the empty string
concat_ws_NullSepAsEmpty(as) ==
    IF \E i \in 1..Len(as) : as[i].dt # "Utf8"
    THEN Internal("failed to downcast")
    ELSE IF Len(as) < 2
    THEN Internal("concat_ws was called with too few arguments. It requires at least 2.")
    ELSE Ok(Array("Utf8",
            [index \in 1..Len(as[1].rows) |->
                Some(ConcatWsLoop(as, index,
                        IF IsSome(as[1].rows[index]) THEN Unwrap(as[1].rows[index])
                        ELSE <<>>, 2, <<>>))]))

concat_ws(as) ==
    IF \E i \in 1..Len(as) : as[i].dt # "Utf8"
    THEN Internal("failed to downcast")
    ELSE IF Len(as) < 2
    THEN Internal("concat_ws was called with too few arguments. It requires at least 2.")
    ELSE Ok(Array("Utf8",
            [index \in 1..Len(as[1].rows) |->
                IF IsSome(as[1].rows[index])
                THEN Some(ConcatWsLoop(as, index, Unwrap(as[1].rows[index]), 2, <<>>))
                ELSE None]))

----------------------------------------------------------------------------
(* concat *)

\* the loop over the arguments of one row of the batch path
RECURSIVE ConcatRowLoop(_, _, _, _)
ConcatRowLoop(as, index, k, owned_string) ==
    IF k > Len(as) THEN Ok(Some(owned_string))
    ELSE LET arg == as[k] IN
         IF arg.cv = "Scalar" /\ arg.dt = "Utf8"
         THEN ConcatRowLoop(as, index, k + 1,
                  IF IsSome(arg.val) THEN owned_string \o Unwrap(arg.val)
                  ELSE owned_string)
         ELSE IF arg.cv = "Array"
         THEN IF IsSome(arg.rows[index])
              THEN IF arg.dt = "Utf8"
                   THEN ConcatRowLoop(as, index, k + 1,
                            owned_string \o Unwrap(arg.rows[index]))
                   ELSE Panic("unwrap on None")
              ELSE ConcatRowLoop(as, index, k + 1, owned_string)
         ELSE Panic("unreachable")

\* the fold where a null scalar makes the result null
RECURSIVE ConcatFold_NullAbsorbs(_, _, _)
ConcatFold_NullAbsorbs(as, k, inner) ==
    IF k > Len(as) THEN Ok(ScalarCV("Utf8", Some(inner)))
    ELSE IF as[k].cv = "Scalar" /\ as[k].dt = "Utf8"
    THEN IF IsSome(as[k].val)
         THEN ConcatFold_NullAbsorbs(as, k + 1, inner \o Unwrap(as[k].val))
         ELSE Ok(ScalarCV("Utf8", None))
    ELSE Panic("unreachable")

\* the fold of the all-scalar path
RECURSIVE ConcatFold(_, _, _)
ConcatFold(as, k, inner) ==
    IF k > Len(as) THEN Ok(ScalarCV("Utf8", Some(inner)))
    ELSE IF as[k].cv = "Scalar" /\ as[k].dt = "Utf8"
    THEN ConcatFold(as, k + 1,
             IF IsSome(as[k].val) THEN inner \o Unwrap(as[k].val) ELSE inner)
    ELSE Panic("unreachable")

\* the row count of the first batch argument, if there is one
RECURSIVE FirstArrayLen(_)
FirstArrayLen(as) ==
    IF as = <<>> THEN None
    ELSE IF Head(as).cv = "Array" THEN Some(Len(Head(as).rows))
    ELSE FirstArrayLen(Tail(as))

\* concat where a null argument makes the row (or the scalar) null
concat_NullPropagates(as) ==
    IF as = <<>>
    THEN Internal("concat was called with 0 arguments. It requires at least 1.")
    ELSE IF IsSome(FirstArrayLen(as))
    THEN LET rs == [index \in 1..Unwrap(FirstArrayLen(as)) |->
                        IF \E k \in 1..Len(as) :
                              IF as[k].cv = "Scalar" THEN as[k].val = None
                              ELSE as[k].rows[index] = None
                        THEN Ok(None)
                        ELSE ConcatRowLoop(as, index, 1, <<>>)]
             r == CollectResult("Utf8", rs)
         IN  IF IsErr(r) THEN r ELSE Ok(ArrayCV("Utf8", r.val.rows))
    ELSE IF \E k \in 1..Len(as) : as[k].val = None
    THEN Ok(ScalarCV("Utf8", None))
    ELSE ConcatFold(as, 1, <<>>)

\* concat that builds a one-row batch when every argument is a scalar
concat_ScalarsAsBatch(as) ==
    IF as = <<>>
    THEN Internal("concat was called with 0 arguments. It requires at least 1.")
    ELSE LET size == IF IsSome(FirstArrayLen(as)) THEN Unwrap(FirstArrayLen(as)) ELSE 1
             rs == [index \in 1..size |-> ConcatRowLoop(as, index, 1, <<>>)]
             r == CollectResult("Utf8", rs)
         IN  IF IsErr(r) THEN r ELSE Ok(ArrayCV("Utf8", r.val.rows))

concat(as) ==
    IF as = <<>>
    THEN Internal("concat was called with 0 arguments. It requires at least 1.")
    ELSE IF IsSome(FirstArrayLen(as))
    THEN LET rs == [index \in 1..Unwrap(FirstArrayLen(as)) |->
                        ConcatRowLoop(as, index, 1, <<>>)]
             r == CollectResult("Utf8", rs)
         IN  IF IsErr(r) THEN r ELSE Ok(ArrayCV("Utf8", r.val.rows))
    ELSE ConcatFold(as, 1, <<>>)

----------------------------------------------------------------------------
(* chr *)

\* core::char::from_u32 of `integer as u32`: the low 32 bits, a character
\* unless a surrogate or above U+10FFFF
from_u32(u) ==
    IF (0 <= u /\ u < 55296) \/ (57343 < u /\ u <= 1114111) THEN Some(u) ELSE None

chr_row(integer) ==
    IF integer = None THEN Ok(None)
    ELSE IF Unwrap(integer) = I64(0)
    THEN Execution("null character not permitted.")
    ELSE IF IsSome(from_u32(Lo(Unwrap(integer))))
    THEN Ok(Some(<<Unwrap(from_u32(Lo(Unwrap(integer))))>>))
    ELSE Execution("requested character too large for encoding.")

chr(as) ==
    IF Len(as) < 1 THEN Panic("index out of bounds")
    ELSE IF as[1].dt # "Int64" THEN Internal("could not cast integer to Int64Array")
    ELSE CollectResult("Utf8", [i \in 1..Len(as[1].rows) |-> chr_row(as[1].rows[i])])

----------------------------------------------------------------------------
(* to_hex *)

\* ArrowNativeType::to_usize: a checked conversion, None for a negative value
to_usize(integer) == IF Hi(integer) < 0 THEN None ELSE Some(integer)

HexDigit(d) == IF d < 10 THEN 48 + d ELSE 87 + d

\* the eight hexadecimal digits of a 32-bit pattern
HexPad8(x) ==
    [k \in 1..8 |->
        HexDigit((x \div (CASE k = 1 -> 268435456 [] k = 2 -> 16777216
                            [] k = 3 -> 1048576 [] k = 4 -> 65536
                            [] k = 5 -> 4096 [] k = 6 -> 256
                            [] k = 7 -> 16 [] OTHER -> 1)) % 16)]

RECURSIVE StripZeros(_)
StripZeros(ds) == IF Len(ds) > 1 /\ Head(ds) = 48 THEN StripZeros(Tail(ds)) ELSE ds

\* format!("{:x}", u) of a usize
FormatHex(u) == StripZeros(HexPad8(Hi(u)) \o HexPad8(Lo(u)))

to_hex_row(integer) ==
    IF integer = None THEN Ok(None)
    ELSE IF to_usize(Unwrap(integer)) = None THEN Panic("unwrap on None")
    ELSE Ok(Some(FormatHex(Unwrap(to_usize(Unwrap(integer))))))

to_hex(T, as) ==
    IF Len(as) < 1 THEN Panic("index out of bounds")
    ELSE IF as[1].dt # T THEN Internal("could not cast integer to PrimitiveArray")
    ELSE CollectResult("Utf8", [i \in 1..Len(as[1].rows) |-> to_hex_row(as[1].rows[i])])

----------------------------------------------------------------------------
(* upper, lower and their dispatch *)

to_ascii_lowercase(string) ==
    [i \in 1..Len(string) |->
        IF string[i] \in 65..90 THEN string[i] + 32 ELSE string[i]]

\* upper-casing that also folds the Latin-1 letters U+00E0..U+00FE
to_ascii_uppercase_Latin1(string) ==
    [i \in 1..Len(string) |->
        IF string[i] \in 97..122 \/ string[i] \in 224..254 THEN string[i] - 32
        ELSE string[i]]

to_ascii_uppercase(string) ==
    [i \in 1..Len(string) |->
        IF string[i] \in 97..122 THEN string[i] - 32 ELSE string[i]]

\* the closure `op` that lower and upper hand to handle
op(name, string) ==
    IF name = "lower" THEN to_ascii_lowercase(string) ELSE to_ascii_uppercase(string)

unary_string_function(T, as, name) ==
    IF Len(as) # 1 THEN Internal("wrong number of args: takes exactly one argument")
    ELSE IF as[1].dt # T THEN Internal("could not cast string to GenericStringArray")
    ELSE Ok(Array(T, [i \in 1..Len(as[1].rows) |->
                        IF IsSome(as[1].rows[i])
                        THEN Some(op(name, Unwrap(as[1].rows[i])))
                        ELSE None]))

handle(as, name) ==
    IF Len(as) < 1 THEN Panic("index out of bounds")
    ELSE IF as[1].cv = "Array"
    THEN IF as[1].dt \in {"Utf8", "LargeUtf8"}
         THEN LET r == unary_string_function(as[1].dt,
                           <<Array(as[1].dt, as[1].rows)>>, name)
              IN  IF IsErr(r) THEN r ELSE Ok(ArrayCV(r.val.dt, r.val.rows))
         ELSE Internal("Unsupported data type for function")
    ELSE IF as[1].dt \in {"Utf8", "LargeUtf8"}
         THEN Ok(ScalarCV(as[1].dt,
                  IF IsSome(as[1].val) THEN Some(op(name, Unwrap(as[1].val))) ELSE None))
         ELSE Internal("Unsupported data type for function")

lower(as) == handle(as, "lower")

upper(as) == handle(as, "upper")

----------------------------------------------------------------------------
(* Grapheme clusters: UnicodeSegmentation::graphemes(true), the extended   *)
(* grapheme clusters of UAX #29, for the characters of the model: CR, LF,  *)
(* the other controls (Cc), the combining diacritical marks U+0300..U+036F *)
(* (Extend), and characters of no other class.                             *)

IsControl(c) == c \in 0..31 \/ c \in 127..159

IsExtend(c) == c \in 768..879

\* GB3 (CR x LF), GB4 and GB5 (break after and before a control), GB9
\* (x Extend), GB999 (break everywhere else)
NoBreak(prev, cur) ==
    \/ prev = 13 /\ cur = 10
    \/ IsExtend(cur) /\ ~IsControl(prev)

RECURSIVE GraphemesFrom(_, _, _, _)
GraphemesFrom(string, i, cluster, done) ==
    IF i > Len(string) THEN done \o <<cluster>>
    ELSE IF NoBreak(string[i - 1], string[i])
    THEN GraphemesFrom(string, i + 1, Append(cluster, string[i]), done)
    ELSE GraphemesFrom(string, i + 1, <<string[i]>>, done \o <<cluster>>)

graphemes(string) ==
    IF string = <<>> THEN <<>> ELSE GraphemesFrom(string, 2, <<string[1]>>, <<>>)

\* Iterator::rev
Rev(xs) == [i \in 1..Len(xs) |-> xs[Len(xs) + 1 - i]]

\* [&str]::concat and collect::<String>()
RECURSIVE Flatten(_)
Flatten(ss) == IF ss = <<>> THEN <<>> ELSE Head(ss) \o Flatten(Tail(ss))

----------------------------------------------------------------------------
(* reverse *)

\* the code points in reverse order, clusters not kept together
reverse_row_CodePoints(string) == Rev(string)

reverse_row(string) == Flatten(Rev(graphemes(string)))

\* reverse that gives the rows in reverse order
reverse_RowsReversed(T, as) ==
    IF Len(as) < 1 THEN Panic("index out of bounds")
    ELSE IF as[1].dt # T THEN Internal("could not cast string to GenericStringArray")
    ELSE Ok(Array(T, Rev([i \in 1..Len(as[1].rows) |->
                        IF IsSome(as[1].rows[i])
                        THEN Some(reverse_row(Unwrap(as[1].rows[i])))
                        ELSE None])))

reverse(T, as) ==
    IF Len(as) < 1 THEN Panic("index out of bounds")
    ELSE IF as[1].dt # T THEN Internal("could not cast string to GenericStringArray")
    ELSE Ok(Array(T, [i \in 1..Len(as[1].rows) |->
                        IF IsSome(as[1].rows[i])
                        THEN Some(reverse_row(Unwrap(as[1].rows[i])))
                        ELSE None]))

----------------------------------------------------------------------------
(* Integers the kernels cast to usize.  A usize is held as the same pair;  *)
(* the model's strings are short, so a usize matters as a small number or  *)
(* as one beyond every length.                                             *)

\* i64::MIN
MinI64 == <<-2147483647 - 1, 0>>

IsZero(x) == x = <<0, 0>>

IsNegative(x) == Hi(x) < 0

\* the usize is below 2^31, and Lo gives it
IsSmall(u) == Hi(u) = 0 /\ Lo(u) >= 0

\* the first k and the last k items of a sequence
Take(xs, k) == SubSeq(xs, 1, k)

Drop(xs, k) == SubSeq(xs, k + 1, Len(xs))

\* a string of k copies of a character cycle: fill[l % len] for l in 0..k-1
Cycle(fill, k) == [l \in 1..k |-> fill[((l - 1) % Len(fill)) + 1]]

----------------------------------------------------------------------------
(* ascii, character_length, initcap *)

ascii(T, as) ==
    IF Len(as) < 1 THEN Panic("index out of bounds")
    ELSE IF as[1].dt # T THEN Internal("could not cast string to GenericStringArray")
    ELSE Ok(Array("Int32", [i \in 1..Len(as[1].rows) |->
                IF IsSome(as[1].rows[i])
                THEN Some(IF Unwrap(as[1].rows[i]) = <<>> THEN I64(0)
                          ELSE I64(Unwrap(as[1].rows[i])[1]))
                ELSE None]))

\* the text type whose offsets have the native type of T
StringTypeOf(T) == IF T = "Int32" THEN "Utf8" ELSE "LargeUtf8"

character_length(T, as) ==
    IF Len(as) < 1 THEN Panic("index out of bounds")
    ELSE IF as[1].dt # StringTypeOf(T)
    THEN Internal("could not cast string to StringArray")
    ELSE Ok(Array(T, [i \in 1..Len(as[1].rows) |->
                IF IsSome(as[1].rows[i])
                THEN Some(I64(Len(graphemes(Unwrap(as[1].rows[i])))))
                ELSE None]))

\* a word test that takes the digits for separators
IsLetterOrNumber_NoDigits(c) == c \in 65..90 \/ c \in 97..122

IsLetterOrNumber(c) == c \in 65..90 \/ c \in 97..122 \/ c \in 48..57

RECURSIVE InitcapLoop(_, _, _, _)
InitcapLoop(string, i, previous_character_letter_or_number, char_vector) ==
    IF i > Len(string) THEN char_vector
    ELSE InitcapLoop(string, i + 1, IsLetterOrNumber(string[i]),
             char_vector \o (IF previous_character_letter_or_number
                             THEN to_ascii_lowercase(<<string[i]>>)
                             ELSE to_ascii_uppercase(<<string[i]>>)))

initcap(T, as) ==
    IF Len(as) < 1 THEN Panic("index out of bounds")
    ELSE IF as[1].dt # T THEN Internal("could not cast string to GenericStringArray")
    ELSE Ok(Array(T, [i \in 1..Len(as[1].rows) |->
                IF IsSome(as[1].rows[i])
                THEN Some(InitcapLoop(Unwrap(as[1].rows[i]), 1, FALSE, <<>>))
                ELSE None]))

----------------------------------------------------------------------------
(* btrim, ltrim, rtrim *)

RECURSIVE trim_start_matches(_, _)
trim_start_matches(string, chars) ==
    IF string # <<>> /\ Head(string) \in chars
    THEN trim_start_matches(Tail(string), chars)
    ELSE string

RECURSIVE trim_end_matches(_, _)
trim_end_matches(string, chars) ==
    IF string # <<>> /\ string[Len(string)] \in chars
    THEN trim_end_matches(SubSeq(string, 1, Len(string) - 1), chars)
    ELSE string

CharSet(characters) == {characters[j] : j \in 1..Len(characters)}

\* trimming whose btrim leaves the end of the string alone
trim_row_StartOnly(which, string, chars) ==
    CASE which = "btrim" -> trim_start_matches(string, chars)
      [] which = "ltrim" -> trim_start_matches(string, chars)
      [] OTHER -> trim_end_matches(string, chars)

\* which = "btrim", "ltrim" or "rtrim"
trim_row(which, string, chars) ==
    CASE which = "btrim" -> trim_end_matches(trim_start_matches(string, chars), chars)
      [] which = "ltrim" -> trim_start_matches(string, chars)
      [] OTHER -> trim_end_matches(string, chars)

\* trimming that takes a call of more than 2 arguments as one of 2
trim_ExtraIgnored(which, T, as) ==
    IF Len(as) = 1
    THEN IF as[1].dt # T THEN Internal("could not cast string to GenericStringArray")
         ELSE Ok(Array(T, [i \in 1..Len(as[1].rows) |->
                    IF IsSome(as[1].rows[i])
                    THEN Some(trim_row(which, Unwrap(as[1].rows[i]), {32}))
                    ELSE None]))
    ELSE IF Len(as) >= 2
    THEN IF as[1].dt # T THEN Internal("could not cast string to GenericStringArray")
         ELSE IF as[2].dt # T
         THEN Internal("could not cast characters to GenericStringArray")
         ELSE Ok(Array(T, [i \in 1..Len(as[1].rows) |->
                    IF as[1].rows[i] = None THEN None
                    ELSE IF as[2].rows[i] = None THEN None
                    ELSE Some(trim_row(which, Unwrap(as[1].rows[i]),
                                       CharSet(Unwrap(as[2].rows[i]))))]))
    ELSE Internal("trim was called with a wrong number of arguments. It requires at least 1 and at most 2.")

trim(which, T, as) ==
    IF Len(as) = 1
    THEN IF as[1].dt # T THEN Internal("could not cast string to GenericStringArray")
         ELSE Ok(Array(T, [i \in 1..Len(as[1].rows) |->
                    IF IsSome(as[1].rows[i])
                    THEN Some(trim_row(which, Unwrap(as[1].rows[i]), {32}))
                    ELSE None]))
    ELSE IF Len(as) = 2
    THEN IF as[1].dt # T THEN Internal("could not cast string to GenericStringArray")
         ELSE IF as[2].dt # T
         THEN Internal("could not cast characters to GenericStringArray")
         ELSE Ok(Array(T, [i \in 1..Len(as[1].rows) |->
                    IF as[1].rows[i] = None THEN None
                    ELSE IF as[2].rows[i] = None THEN None
                    ELSE Some(trim_row(which, Unwrap(as[1].rows[i]),
                                       CharSet(Unwrap(as[2].rows[i]))))]))
    ELSE Internal("trim was called with a wrong number of arguments. It requires at least 1 and at most 2.")

btrim(T, as) == trim("btrim", T, as)

ltrim(T, as) == trim("ltrim", T, as)

rtrim(T, as) == trim("rtrim", T, as)

----------------------------------------------------------------------------
(* left, right.  n.abs() of i64::MIN overflows: a build with overflow      *)
(* checks panics there, a build without them goes on with i64::MIN, which  *)
(* as usize is 2^63.                                                       *)

left_row(string, n, checks) ==
    LET g == graphemes(string)
        L == Len(g)
    IN  IF IsZero(n) THEN Ok(Some(<<>>))
        ELSE IF ~IsNegative(n)
        THEN Ok(Some(IF IsSmall(n) /\ Lo(n) < L THEN Flatten(Take(g, Lo(n)))
                     ELSE string))
        ELSE IF n = MinI64 /\ checks THEN Panic("attempt to negate with overflow")
        ELSE Ok(Some(IF Hi(n) = -1 /\ Lo(n) < 0 /\ Lo(n) >= -L
                     THEN Flatten(Take(g, L + Lo(n)))
                     ELSE <<>>))

right_row(string, n, checks) ==
    LET g == graphemes(string)
        L == Len(g)
    IN  IF IsZero(n) THEN Ok(Some(<<>>))
        ELSE IF ~IsNegative(n)
        THEN Ok(Some(IF IsSmall(n) /\ Lo(n) <= L THEN Flatten(Drop(g, L - Lo(n)))
                     ELSE string))
        ELSE IF n = MinI64 /\ checks THEN Panic("attempt to negate with overflow")
        ELSE Ok(Some(IF Hi(n) = -1 /\ Lo(n) < 0 /\ Lo(n) > -L
                     THEN Flatten(Drop(g, -Lo(n)))
                     ELSE <<>>))

left(T, as, checks) ==
    IF Len(as) < 1 THEN Panic("index out of bounds")
    ELSE IF as[1].dt # T THEN Internal("could not cast string to GenericStringArray")
    ELSE IF Len(as) < 2 THEN Panic("index out of bounds")
    ELSE IF as[2].dt # "Int64" THEN Internal("could not cast n to Int64Array")
    ELSE CollectResult(T, [i \in 1..Len(as[1].rows) |->
            IF as[1].rows[i] = None THEN Ok(None)
            ELSE IF as[2].rows[i] = None THEN Ok(None)
            ELSE left_row(Unwrap(as[1].rows[i]), Unwrap(as[2].rows[i]), checks)])

right(T, as, checks) ==
    IF Len(as) < 1 THEN Panic("index out of bounds")
    ELSE IF as[1].dt # T THEN Internal("could not cast string to GenericStringArray")
    ELSE IF Len(as) < 2 THEN Panic("index out of bounds")
    ELSE IF as[2].dt # "Int64" THEN Internal("could not cast n to Int64Array")
    ELSE CollectResult(T, [i \in 1..Len(as[1].rows) |->
            IF as[1].rows[i] = None THEN Ok(None)
            ELSE IF as[2].rows[i] = None THEN Ok(None)
            ELSE right_row(Unwrap(as[1].rows[i]), Unwrap(as[2].rows[i]), checks)])

----------------------------------------------------------------------------
(* lpad, rpad.  `length as usize` of a negative length is 2^63 or more;    *)
(* the buffer for that many fill characters exceeds isize::MAX bytes and   *)
(* its allocation panics ("capacity overflow").  The model takes every     *)
(* length of 2^31 or more that way.                                        *)

\* padding that cuts a longer string down to its last clusters
pad_row_KeepsLast(side, string, length, fill, zero_first) ==
    LET g == graphemes(string)
        L == Len(g)
    IN  IF zero_first /\ IsZero(length) THEN Ok(Some(<<>>))
        ELSE IF IsSmall(length) /\ Lo(length) < L
        THEN Ok(Some(Flatten(Drop(g, L - Lo(length)))))
        ELSE IF fill = <<>> THEN Ok(Some(string))
        ELSE IF ~IsSmall(length) THEN Panic("capacity overflow")
        ELSE Ok(Some(IF side = "l" THEN Cycle(fill, Lo(length) - L) \o string
                     ELSE string \o Cycle(fill, Lo(length) - L)))

\* side = "l" or "r"; fill = <<32>> in the 2-argument form
pad_row(side, string, length, fill, zero_first) ==
    LET g == graphemes(string)
        L == Len(g)
    IN  IF zero_first /\ IsZero(length) THEN Ok(Some(<<>>))
        ELSE IF IsSmall(length) /\ Lo(length) < L
        THEN Ok(Some(Flatten(Take(g, Lo(length)))))
        ELSE IF fill = <<>> THEN Ok(Some(string))
        ELSE IF ~IsSmall(length) THEN Panic("capacity overflow")
        ELSE Ok(Some(IF side = "l" THEN Cycle(fill, Lo(length) - L) \o string
                     ELSE string \o Cycle(fill, Lo(length) - L)))

pad(side, T, as) ==
    IF Len(as) = 2
    THEN IF as[1].dt # T THEN Internal("could not cast string to GenericStringArray")
         ELSE IF as[2].dt # "Int64" THEN Internal("could not cast length to Int64Array")
         ELSE CollectResult(T, [i \in 1..Len(as[1].rows) |->
                 IF as[1].rows[i] = None THEN Ok(None)
                 ELSE IF as[2].rows[i] = None THEN Ok(None)
                 ELSE pad_row(side, Unwrap(as[1].rows[i]), Unwrap(as[2].rows[i]),
                              <<32>>, TRUE)])
    ELSE IF Len(as) = 3
    THEN IF as[1].dt # T THEN Internal("could not cast string to GenericStringArray")
         ELSE IF as[2].dt # "Int64" THEN Internal("could not cast length to Int64Array")
         ELSE IF as[3].dt # T THEN Internal("could not cast fill to GenericStringArray")
         ELSE CollectResult(T, [i \in 1..Len(as[1].rows) |->
                 IF as[1].rows[i] = None THEN Ok(None)
                 ELSE IF as[2].rows[i] = None THEN Ok(None)
                 ELSE IF as[3].rows[i] = None THEN Ok(None)
                 ELSE pad_row(side, Unwrap(as[1].rows[i]), Unwrap(as[2].rows[i]),
                              Unwrap(as[3].rows[i]), side = "l")])
    ELSE Internal("pad was called with a wrong number of arguments. It requires at least 2 and at most 3.")

lpad(T, as) == pad("l", T, as)

rpad(T, as) == pad("r", T, as)

----------------------------------------------------------------------------
(* repeat.  str::repeat(n) of the empty string is empty for every n; of a  *)
(* non-empty string with n of 2^63 or more (a negative number cast to      *)
(* usize) it panics ("capacity overflow").                                 *)

RECURSIVE Repeated(_, _)
Repeated(string, k) == IF k = 0 THEN <<>> ELSE string \o Repeated(string, k - 1)

repeat_row(string, number) ==
    IF string = <<>> THEN Ok(Some(<<>>))
    ELSE IF ~IsSmall(number) THEN Panic("capacity overflow")
    ELSE Ok(Some(Repeated(string, Lo(number))))

repeat(T, as) ==
    IF Len(as) < 1 THEN Panic("index out of bounds")
    ELSE IF as[1].dt # T THEN Internal("could not cast string to GenericStringArray")
    ELSE IF Len(as) < 2 THEN Panic("index out of bounds")
    ELSE IF as[2].dt # "Int64" THEN Internal("could not cast number to Int64Array")
    ELSE CollectResult(T, [i \in 1..Len(as[1].rows) |->
            IF as[1].rows[i] = None THEN Ok(None)
            ELSE IF as[2].rows[i] = None THEN Ok(None)
            ELSE repeat_row(Unwrap(as[1].rows[i]), Unwrap(as[2].rows[i]))])

----------------------------------------------------------------------------
(* substr *)

\* the 3-argument form that returns the whole string for a start of 0 or less
\* before it looks at the count
substr_for_StartFirst(string, start, count) ==
    LET g == graphemes(string) IN
    IF IsNegative(start) \/ IsZero(start) THEN Ok(Some(string))
    ELSE IF IsNegative(count) THEN Execution("negative substring length not allowed")
    ELSE IF ~IsSmall(start) \/ Len(g) < Lo(start) - 1 THEN Ok(Some(<<>>))
    ELSE IF ~IsSmall(count) \/ Len(g) < (Lo(start) - 1) + Lo(count)
    THEN Ok(Some(Flatten(Drop(g, Lo(start) - 1))))
    ELSE Ok(Some(Flatten(SubSeq(g, Lo(start), (Lo(start) - 1) + Lo(count)))))

\* the 2-argument form with positions counted from 0
substr_from_ZeroBased(string, start) ==
    LET g == graphemes(string) IN
    IF IsNegative(start) \/ IsZero(start) THEN string
    ELSE IF ~IsSmall(start) \/ Len(g) < Lo(start) THEN <<>>
    ELSE Flatten(Drop(g, Lo(start)))

\* the 2-argument form
substr_from(string, start) ==
    LET g == graphemes(string) IN
    IF IsNegative(start) \/ IsZero(start) THEN string
    ELSE IF ~IsSmall(start) \/ Len(g) < Lo(start) - 1 THEN <<>>
    ELSE Flatten(Drop(g, Lo(start) - 1))

\* the 3-argument form
substr_for(string, start, count) ==
    LET g == graphemes(string) IN
    IF IsNegative(count) THEN Execution("negative substring length not allowed")
    ELSE IF IsNegative(start) \/ IsZero(start) THEN Ok(Some(string))
    ELSE IF ~IsSmall(start) \/ Len(g) < Lo(start) - 1 THEN Ok(Some(<<>>))
    ELSE IF ~IsSmall(count) \/ Len(g) < (Lo(start) - 1) + Lo(count)
    THEN Ok(Some(Flatten(Drop(g, Lo(start) - 1))))
    ELSE Ok(Some(Flatten(SubSeq(g, Lo(start), (Lo(start) - 1) + Lo(count)))))

\* substr that looks at the count of a row before it looks for nulls
substr_CountBeforeNulls(T, as) ==
    IF Len(as) = 2
    THEN IF as[1].dt # T THEN Internal("could not cast string to GenericStringArray")
         ELSE IF as[2].dt # "Int64" THEN Internal("could not cast start to Int64Array")
         ELSE Ok(Array(T, [i \in 1..Len(as[1].rows) |->
                 IF as[1].rows[i] = None THEN None
                 ELSE IF as[2].rows[i] = None THEN None
                 ELSE Some(substr_from(Unwrap(as[1].rows[i]), Unwrap(as[2].rows[i])))]))
    ELSE IF Len(as) = 3
    THEN IF as[1].dt # T THEN Internal("could not cast string to GenericStringArray")
         ELSE IF as[2].dt # "Int64" THEN Internal("could not cast start to Int64Array")
         ELSE IF as[3].dt # "Int64" THEN Internal("could not cast count to Int64Array")
         ELSE CollectResult(T, [i \in 1..Len(as[1].rows) |->
                 IF IsSome(as[3].rows[i]) /\ IsNegative(Unwrap(as[3].rows[i]))
                 THEN Execution("negative substring length not allowed")
                 ELSE IF as[1].rows[i] = None THEN Ok(None)
                 ELSE IF as[2].rows[i] = None THEN Ok(None)
                 ELSE IF as[3].rows[i] = None THEN Ok(None)
                 ELSE substr_for(Unwrap(as[1].rows[i]), Unwrap(as[2].rows[i]),
                                 Unwrap(as[3].rows[i]))])
    ELSE Internal("substr was called with a wrong number of arguments. It requires 2 or 3.")

substr(T, as) ==
    IF Len(as) = 2
    THEN IF as[1].dt # T THEN Internal("could not cast string to GenericStringArray")
         ELSE IF as[2].dt # "Int64" THEN Internal("could not cast start to Int64Array")
         ELSE Ok(Array(T, [i \in 1..Len(as[1].rows) |->
                 IF as[1].rows[i] = None THEN None
                 ELSE IF as[2].rows[i] = None THEN None
                 ELSE Some(substr_from(Unwrap(as[1].rows[i]), Unwrap(as[2].rows[i])))]))
    ELSE IF Len(as) = 3
    THEN IF as[1].dt # T THEN Internal("could not cast string to GenericStringArray")
         ELSE IF as[2].dt # "Int64" THEN Internal("could not cast start to Int64Array")
         ELSE IF as[3].dt # "Int64" THEN Internal("could not cast count to Int64Array")
         ELSE CollectResult(T, [i \in 1..Len(as[1].rows) |->
                 IF as[1].rows[i] = None THEN Ok(None)
                 ELSE IF as[2].rows[i] = None THEN Ok(None)
                 ELSE IF as[3].rows[i] = None THEN Ok(None)
                 ELSE substr_for(Unwrap(as[1].rows[i]), Unwrap(as[2].rows[i]),
                                 Unwrap(as[3].rows[i]))])
    ELSE Internal("substr was called with a wrong number of arguments. It requires 2 or 3.")

----------------------------------------------------------------------------
(* regexp_extract, regexp_match.  The matching itself is the compute       *)
(* kernels' (arrow::compute); here a pattern is a literal text, which      *)
(* matches wherever it occurs, and group 0 is the whole match.             *)

Occurs(pattern, string) ==
    \E k \in 0..(Len(string) - Len(pattern)) :
        SubSeq(string, k + 1, k + Len(pattern)) = pattern

compute_regexp_extract(array, pattern, idx) ==
    IF ~(array.dt \in {"Utf8", "LargeUtf8"}) THEN [tag |-> "ArrowError", msg |-> "compute"]
    ELSE Ok(Array(array.dt, [i \in 1..Len(array.rows) |->
                IF IsSome(array.rows[i]) /\ IsZero(idx)
                      /\ Occurs(pattern, Unwrap(array.rows[i]))
                THEN Some(pattern) ELSE None]))

compute_regexp_match(array, pattern) ==
    IF ~(array.dt \in {"Utf8", "LargeUtf8"}) THEN [tag |-> "ArrowError", msg |-> "compute"]
    ELSE Ok(Array("List", [i \in 1..Len(array.rows) |->
                IF array.rows[i] = None THEN None
                ELSE IF Occurs(pattern, Unwrap(array.rows[i]))
                THEN Some(<<pattern>>) ELSE Some(<<>>)]))

\* a reading of the pattern that takes the last row for row 0
value0_LastRow(array) ==
    IF IsSome(array.rows[Len(array.rows)]) THEN Unwrap(array.rows[Len(array.rows)])
    ELSE IF array.dt = "Int64" THEN I64(0) ELSE <<>>

\* StringArray::value(0) and Int64Array::value(0): the slot of row 0, which for
\* a null row holds the empty string or 0
value0(array) ==
    IF IsSome(array.rows[1]) THEN Unwrap(array.rows[1])
    ELSE IF array.dt = "Int64" THEN I64(0) ELSE <<>>

regexp_extract(as) ==
    IF Len(as) < 2 THEN Panic("index out of bounds")
    ELSE IF as[2].dt # "Utf8" THEN Panic("unwrap on None")
    ELSE IF Len(as[2].rows) < 1 THEN Panic("StringArray out of bounds access")
    ELSE IF Len(as) < 3 THEN Panic("index out of bounds")
    ELSE IF as[3].dt # "Int64" THEN Panic("unwrap on None")
    ELSE IF Len(as[3].rows) < 1 THEN Panic("PrimitiveArray out of bounds access")
    ELSE compute_regexp_extract(as[1], value0(as[2]), value0(as[3]))

regexp_match(as) ==
    IF Len(as) < 2 THEN Panic("index out of bounds")
    ELSE IF as[2].dt # "Utf8" THEN Panic("unwrap on None")
    ELSE IF Len(as[2].rows) < 1 THEN Panic("StringArray out of bounds access")
    ELSE compute_regexp_match(as[1], value0(as[2]))

----------------------------------------------------------------------------
(* The calls.  Every behaviour is one call of one kernel: from the idle     *)
(* state an action draws the argument list, and the next state holds the   *)
(* kernel's name, the arguments as given and the outcome.                  *)

Init ==
    /\ fn = "none"
    /\ tp = "none"
    /\ args = <<>>
    /\ res = [tag |-> "None"]

\* separators and pieces of the concat_ws calls: null, "", "," and null, "a", "b"
SepVals == {None, Some(<<>>), Some(<<44>>)}

PieceVals == {None, Some(<<97>>), Some(<<98>>)}

ConcatWsInputs ==
    UNION {
      { IF n = 0 THEN <<>> ELSE <<sep>> \o rest :
          sep \in Arrays("Utf8", SepVals, r),
          rest \in ArrayLists("Utf8", PieceVals, r, IF n = 0 THEN 0 ELSE n - 1) } :
      <<n, r>> \in {p \in (0..WsCells) \X (0..WsCells) : p[1] * p[2] <= WsCells} }

CallConcatWs(inputs) ==
    /\ fn = "none"
    /\ \E as \in inputs :
          /\ fn' = "concat_ws"
          /\ tp' = "none"
          /\ args' = as
          /\ res' = concat_ws(as)

NextConcatWs == CallConcatWs(ConcatWsInputs)

SpecConcatWs == Init /\ [][NextConcatWs]_vars

\* the arguments of the concat calls: Utf8 scalars and Utf8 batches of r rows
ConcatArgVals(r) ==
    {ScalarCV("Utf8", v) : v \in PieceVals}
        \cup {ArrayCV("Utf8", rw) : rw \in [1..r -> PieceVals]}

ConcatInputs == UNION {[1..n -> ConcatArgVals(r)] : n \in 0..ConcatArgs, r \in 0..VarRows}

CallConcat(inputs) ==
    /\ fn = "none"
    /\ \E as \in inputs :
          /\ fn' = "concat"
          /\ tp' = "none"
          /\ args' = as
          /\ res' = concat(as)

NextConcat == CallConcat(ConcatInputs)

SpecConcat == Init /\ [][NextConcat]_vars

\* the strings of at most n characters of an alphabet
Strings(alphabet, n) == UNION {[1..k -> alphabet] : k \in 0..n}

Options(vals) == {None} \cup {Some(v) : v \in vals}

\* chr: null, 0, 'A', U+1F4AF, the surrogate U+D800, U+10FFFF, U+110000, -1,
\* 2^32, 2^32 + 65 and -2^32 + 65
ChrVals ==
    Options({I64(0), I64(65), I64(128175), I64(55296), I64(1114111), I64(1114112),
             I64(-1), <<1, 0>>, <<1, 65>>,
             <<-1, 65>>})

ChrInputs == {<<a>> : a \in UNION {Arrays("Int64", ChrVals, r) : r \in 0..MaxRows}}

CallChr(inputs) ==
    /\ fn = "none"
    /\ \E as \in inputs :
          /\ fn' = "chr"
          /\ tp' = "none"
          /\ args' = as
          /\ res' = chr(as)

NextChr == CallChr(ChrInputs)

SpecChr == Init /\ [][NextChr]_vars

\* to_hex: null, 0, 10, 255, 4096, 2147483647 and -1, -256 in both widths;
\* 2^31, 2^32 + 1, 2^63 - 1 and -2^63 + 1 in 64 bits only
HexVals(T) ==
    Options({I64(0), I64(10), I64(255), I64(4096), I64(2147483647), I64(-1), I64(-256)}
            \cup (IF T = "Int64"
                  THEN {<<0, -2147483647 - 1>>, <<1, 1>>,
                        <<2147483647, -1>>,
                        <<-2147483647 - 1, 1>>}
                  ELSE {}))

ToHexInputs ==
    UNION {{[T |-> T, as |-> <<a>>] :
               a \in UNION {Arrays(T, HexVals(T), r) : r \in 0..MaxRows}} :
           T \in {"Int32", "Int64"}}

CallToHex(calls) ==
    /\ fn = "none"
    /\ \E c \in calls :
          /\ fn' = "to_hex"
          /\ tp' = c.T
          /\ args' = c.as
          /\ res' = to_hex(c.T, c.as)

NextToHex == CallToHex(ToHexInputs)

SpecToHex == Init /\ [][NextToHex]_vars

\* upper and lower: null, "", "aB", "Zz9", "e-acute 1" as the first argument,
\* batch or scalar, narrow or wide text, or an integer; then up to CaseExtra
\* further arguments
CaseStrs == Options({<<>>, <<97, 66>>, <<90, 122, 57>>, <<233, 49>>})

CaseFirst ==
    UNION {{ScalarCV(dt, v) : v \in CaseStrs} \cup
           UNION {{ArrayCV(dt, rw) : rw \in [1..r -> CaseStrs]} : r \in 0..MaxRows} :
           dt \in {"Utf8", "LargeUtf8"}}
      \cup {ScalarCV("Int64", Some(I64(1))), ScalarCV("Int64", None),
            ArrayCV("Int64", <<Some(I64(1))>>)}

CaseMore == {ScalarCV("Utf8", Some(<<97>>)), ArrayCV("Utf8", <<None>>)}

CaseInputs ==
    {<<>>} \cup UNION {{<<a>> \o more : a \in CaseFirst, more \in [1..k -> CaseMore]} :
                       k \in 0..CaseExtra}

CallLower(inputs) ==
    /\ fn = "none"
    /\ \E as \in inputs :
          /\ fn' = "lower"
          /\ tp' = "none"
          /\ args' = as
          /\ res' = lower(as)

CallUpper(inputs) ==
    /\ fn = "none"
    /\ \E as \in inputs :
          /\ fn' = "upper"
          /\ tp' = "none"
          /\ args' = as
          /\ res' = upper(as)

NextCase == CallLower(CaseInputs) \/ CallUpper(CaseInputs)

SpecCase == Init /\ [][NextCase]_vars

\* the dual-mode kernels together
NextDual ==
    \/ CallConcat(ConcatInputs)
    \/ CallLower(CaseInputs)
    \/ CallUpper(CaseInputs)

SpecDual == Init /\ [][NextDual]_vars

\* reverse: one-row batches of null or a string of 'a', 'b', U+0301 (combining
\* acute accent), CR and LF
RevStrs == Options(Strings({97, 98, 769, 13, 10}, RevLen))

ReverseInputs ==
    {[T |-> T, as |-> <<Array(T, <<v>>)>>] : T \in {"Utf8", "LargeUtf8"}, v \in RevStrs}

CallReverse(calls) ==
    /\ fn = "none"
    /\ \E c \in calls :
          /\ fn' = "reverse"
          /\ tp' = c.T
          /\ args' = c.as
          /\ res' = reverse(c.T, c.as)

NextReverse == CallReverse(ReverseInputs)

SpecReverse == Init /\ [][NextReverse]_vars

----------------------------------------------------------------------------
(* The calls of the other kernels, and the specification of all kernels.   *)
(* A call is [T |-> type parameter, as |-> argument list].                 *)

CallAscii(calls) ==
    /\ fn = "none"
    /\ \E c \in calls :
          /\ fn' = "ascii"
          /\ tp' = c.T
          /\ args' = c.as
          /\ res' = ascii(c.T, c.as)

CallCharacterLength(calls) ==
    /\ fn = "none"
    /\ \E c \in calls :
          /\ fn' = "character_length"
          /\ tp' = c.T
          /\ args' = c.as
          /\ res' = character_length(c.T, c.as)

CallInitcap(calls) ==
    /\ fn = "none"
    /\ \E c \in calls :
          /\ fn' = "initcap"
          /\ tp' = c.T
          /\ args' = c.as
          /\ res' = initcap(c.T, c.as)

CallBtrim(calls) ==
    /\ fn = "none"
    /\ \E c \in calls :
          /\ fn' = "btrim"
          /\ tp' = c.T
          /\ args' = c.as
          /\ res' = btrim(c.T, c.as)

CallLtrim(calls) ==
    /\ fn = "none"
    /\ \E c \in calls :
          /\ fn' = "ltrim"
          /\ tp' = c.T
          /\ args' = c.as
          /\ res' = ltrim(c.T, c.as)

CallRtrim(calls) ==
    /\ fn = "none"
    /\ \E c \in calls :
          /\ fn' = "rtrim"
          /\ tp' = c.T
          /\ args' = c.as
          /\ res' = rtrim(c.T, c.as)

CallLpad(calls) ==
    /\ fn = "none"
    /\ \E c \in calls :
          /\ fn' = "lpad"
          /\ tp' = c.T
          /\ args' = c.as
          /\ res' = lpad(c.T, c.as)

CallRpad(calls) ==
    /\ fn = "none"
    /\ \E c \in calls :
          /\ fn' = "rpad"
          /\ tp' = c.T
          /\ args' = c.as
          /\ res' = rpad(c.T, c.as)

CallRepeat(calls) ==
    /\ fn = "none"
    /\ \E c \in calls :
          /\ fn' = "repeat"
          /\ tp' = c.T
          /\ args' = c.as
          /\ res' = repeat(c.T, c.as)

CallSubstr(calls) ==
    /\ fn = "none"
    /\ \E c \in calls :
          /\ fn' = "substr"
          /\ tp' = c.T
          /\ args' = c.as
          /\ res' = substr(c.T, c.as)

CallRegexpExtract(calls) ==
    /\ fn = "none"
    /\ \E c \in calls :
          /\ fn' = "regexp_extract"
          /\ tp' = c.T
          /\ args' = c.as
          /\ res' = regexp_extract(c.as)

CallRegexpMatch(calls) ==
    /\ fn = "none"
    /\ \E c \in calls :
          /\ fn' = "regexp_match"
          /\ tp' = c.T
          /\ args' = c.as
          /\ res' = regexp_match(c.as)

CallLeft(calls) ==
    /\ fn = "none"
    /\ \E c \in calls : \E checks \in BOOLEAN :
          /\ fn' = "left"
          /\ tp' = c.T
          /\ args' = c.as
          /\ res' = left(c.T, c.as, checks)

CallRight(calls) ==
    /\ fn = "none"
    /\ \E c \in calls : \E checks \in BOOLEAN :
          /\ fn' = "right"
          /\ tp' = c.T
          /\ args' = c.as
          /\ res' = right(c.T, c.as, checks)

\* the values of a row: null, "a" U+0301 "b"; null, -1, 2
TextVals == {None, Some(<<97, 769, 98>>)}

IntVals == {None, Some(I64(-1)), Some(I64(2))}

IsText(dt) == dt \in {"Utf8", "LargeUtf8"}

Cols(dt, r) == Arrays(dt, IF IsText(dt) THEN TextVals ELSE IntVals, r)

\* the argument lists of batches of the data types dts, all of one row count
WellFormed(dts) ==
    UNION {
      CASE Len(dts) = 1 -> {<<a>> : a \in Cols(dts[1], r)}
        [] Len(dts) = 2 -> Cols(dts[1], r) \X Cols(dts[2], r)
        [] OTHER -> Cols(dts[1], r) \X Cols(dts[2], r) \X Cols(dts[3], r) :
      r \in 0..MaxRows }

\* argument lists of any length up to n and of any data types, one row each
ShapeArgs ==
    {Array("Utf8", <<Some(<<97>>)>>), Array("LargeUtf8", <<Some(<<97>>)>>),
     Array("Int64", <<Some(I64(1))>>), Array("Int32", <<Some(I64(1))>>)}

ShapeLists(n) == UNION {[1..k -> ShapeArgs] : k \in 0..n}

\* the one-row batches of the data type dt that hold null or one of vals
OneRow(dt, vals) == {Array(dt, <<v>>) : v \in Options(vals)}

CallsOf(T, lists) == {[T |-> T, as |-> as] : as \in lists}

TextCalls1 ==
    UNION {CallsOf(T, WellFormed(<<T>>) \cup ShapeLists(1 + ShapeExtra)) :
           T \in {"Utf8", "LargeUtf8"}}

CharacterLengthCalls ==
    UNION {CallsOf(T, WellFormed(<<StringTypeOf(T)>>) \cup ShapeLists(1 + ShapeExtra)) :
           T \in {"Int32", "Int64"}}

ChrCalls == WellFormed(<<"Int64">>) \cup ShapeLists(1 + ShapeExtra)

ToHexCalls ==
    UNION {CallsOf(T, WellFormed(<<T>>) \cup ShapeLists(1 + ShapeExtra)) :
           T \in {"Int32", "Int64"}}

TrimCalls ==
    UNION {CallsOf(T, WellFormed(<<T>>) \cup WellFormed(<<T, T>>)
                          \cup ShapeLists(2 + ShapeExtra)) :
           T \in {"Utf8", "LargeUtf8"}}

TextIntCalls ==
    UNION {CallsOf(T, WellFormed(<<T, "Int64">>) \cup ShapeLists(2 + ShapeExtra)) :
           T \in {"Utf8", "LargeUtf8"}}

PadCalls ==
    UNION {CallsOf(T, WellFormed(<<T, "Int64">>) \cup WellFormed(<<T, "Int64", T>>)
                          \cup ShapeLists(3 + ShapeExtra)) :
           T \in {"Utf8", "LargeUtf8"}}

SubstrCalls ==
    UNION {CallsOf(T, WellFormed(<<T, "Int64">>) \cup WellFormed(<<T, "Int64", "Int64">>)
                          \cup ShapeLists(3 + ShapeExtra)) :
           T \in {"Utf8", "LargeUtf8"}}

\* texts null, "a", "ab"; patterns null, "a", "b"; group indexes null, 0, 1
RxTexts == {None, Some(<<97>>), Some(<<97, 98>>)}

RxPatterns == {None, Some(<<97>>), Some(<<98>>)}

RxGroups == {None, Some(I64(0)), Some(I64(1))}

RegexpExtractCalls ==
    CallsOf("none",
        UNION {Arrays("Utf8", RxTexts, r) \X Arrays("Utf8", RxPatterns, r)
                   \X Arrays("Int64", RxGroups, r) : r \in 0..MaxRows}
            \cup ShapeLists(3 + ShapeExtra))

RegexpMatchCalls ==
    CallsOf("none",
        UNION {Arrays("Utf8", RxTexts, r) \X Arrays("Utf8", RxPatterns, r) :
               r \in 0..MaxRows}
            \cup ShapeLists(2 + ShapeExtra))

\* concat given scalars and batches that are not Utf8
ConcatShapeArgs ==
    {ScalarCV("Utf8", Some(<<97>>)), ScalarCV("LargeUtf8", Some(<<97>>)),
     ScalarCV("Int64", Some(I64(1))), ArrayCV("Utf8", <<Some(<<97>>)>>),
     ArrayCV("LargeUtf8", <<Some(<<97>>)>>), ArrayCV("Int64", <<Some(I64(1))>>),
     ArrayCV("Int64", <<None>>)}

ConcatShapeLists == UNION {[1..k -> ConcatShapeArgs] : k \in 0..(1 + ShapeExtra)}

Next ==
    \/ CallAscii(TextCalls1)
    \/ CallBtrim(TrimCalls)
    \/ CallCharacterLength(CharacterLengthCalls)
    \/ CallChr(ChrCalls)
    \/ CallConcat(ConcatInputs \cup ConcatShapeLists)
    \/ CallConcatWs(ShapeLists(2 + ShapeExtra))
    \/ CallInitcap(TextCalls1)
    \/ CallLeft(TextIntCalls)
    \/ CallLower(CaseInputs)
    \/ CallLpad(PadCalls)
    \/ CallLtrim(TrimCalls)
    \/ CallRegexpExtract(RegexpExtractCalls)
    \/ CallRegexpMatch(RegexpMatchCalls)
    \/ CallRepeat(TextIntCalls)
    \/ CallReverse(TextCalls1)
    \/ CallRight(TextIntCalls)
    \/ CallRpad(PadCalls)
    \/ CallRtrim(TrimCalls)
    \/ CallSubstr(SubstrCalls)
    \/ CallToHex(ToHexCalls)
    \/ CallUpper(CaseInputs)

Spec == Init /\ [][Next]_vars

----------------------------------------------------------------------------
(* substr alone, over one-row batches of strings with combining marks and  *)
(* of positions and counts around and far beyond their lengths.            *)

\* the strings of "a" and U+0301 of up to SubLen characters
SubstrStrs == Strings({97, 769}, SubLen)

\* -2^63, -1, 0, ..., SubLen + 2, 2^32, 2^63 - 1
SubstrNums ==
    {I64(n) : n \in -1..(SubLen + 2)} \cup {MinI64, <<1, 0>>, <<2147483647, -1>>}

SubstrOneRowCalls ==
    UNION {CallsOf(T,
               (OneRow(T, SubstrStrs) \X OneRow("Int64", SubstrNums))
               \cup
               (OneRow(T, SubstrStrs) \X OneRow("Int64", SubstrNums)
                    \X OneRow("Int64", SubstrNums))) :
           T \in {"Utf8", "LargeUtf8"}}

NextSubstr == CallSubstr(SubstrOneRowCalls)

SpecSubstr == Init /\ [][NextSubstr]_vars

----------------------------------------------------------------------------
(* left and right alone, over one-row batches.                             *)

\* the strings of "a" and U+0301 of up to SideLen characters
SideStrs == Strings({97, 769}, SideLen)

\* -2^63, -2^32, -(SideLen + 1), ..., SideLen + 1, 2^32, 2^63 - 1
SideNums ==
    {I64(n) : n \in -(SideLen + 1)..(SideLen + 1)}
        \cup {MinI64, <<-1, 0>>, <<1, 0>>, <<2147483647, -1>>}

SideCalls ==
    UNION {CallsOf(T, OneRow(T, SideStrs) \X OneRow("Int64", SideNums)) :
           T \in {"Utf8", "LargeUtf8"}}

NextSide ==
    \/ CallLeft(SideCalls)
    \/ CallRight(SideCalls)

SpecSide == Init /\ [][NextSide]_vars

----------------------------------------------------------------------------
(* lpad and rpad alone, over one-row batches.                              *)

\* the strings of "a" and U+0301 of up to PadLen characters
PadStrs == Strings({97, 769}, PadLen)

\* -1, 0, ..., PadLen + 2
PadNums == {I64(n) : n \in -1..(PadLen + 2)}

\* "", "x", "xy", "x" U+0301
PadFills == {<<>>, <<120>>, <<120, 121>>, <<120, 769>>}

PadOneRowCalls ==
    UNION {CallsOf(T,
               (OneRow(T, PadStrs) \X OneRow("Int64", PadNums))
               \cup
               (OneRow(T, PadStrs) \X OneRow("Int64", PadNums) \X OneRow(T, PadFills))) :
           T \in {"Utf8", "LargeUtf8"}}

NextPad ==
    \/ CallLpad(PadOneRowCalls)
    \/ CallRpad(PadOneRowCalls)

SpecPad == Init /\ [][NextPad]_vars

(* btrim, ltrim and rtrim alone, over one-row batches.                     *)

TrimLen == 3

\* the strings of space, tab, newline and "x" of up to TrimLen characters
TrimStrs == Strings({32, 9, 10, 120}, TrimLen)

\* "", " ", "x", "x " and tab newline
TrimSets == {<<>>, <<32>>, <<120>>, <<120, 32>>, <<9, 10>>}

TrimOneRowCalls ==
    UNION {CallsOf(T,
               {<<a>> : a \in OneRow(T, TrimStrs)}
               \cup
               (OneRow(T, TrimStrs) \X OneRow(T, TrimSets))) :
           T \in {"Utf8", "LargeUtf8"}}

NextTrim ==
    \/ CallBtrim(TrimOneRowCalls)
    \/ CallLtrim(TrimOneRowCalls)
    \/ CallRtrim(TrimOneRowCalls)

SpecTrim == Init /\ [][NextTrim]_vars

(* initcap alone, over one-row batches.                                    *)

InitcapLen == 3

\* the strings of "a", "B", "1", space and U+00E9 of up to InitcapLen characters
InitcapStrs == Strings({97, 66, 49, 32, 233}, InitcapLen)

InitcapOneRowCalls ==
    UNION {CallsOf(T, {<<a>> : a \in OneRow(T, InitcapStrs)}) :
           T \in {"Utf8", "LargeUtf8"}}

NextInitcap == CallInitcap(InitcapOneRowCalls)

SpecInitcap == Init /\ [][NextInitcap]_vars

(* Invocations side by side.  Each worker makes one call of concat, left   *)
(* or upper on one of the shared inputs and goes through it a row at a     *)
(* time: the checks before the first row, the closure on row after row,    *)
(* the collected batch.  Here args is the table of the shared inputs, and  *)
(* fn, tp and res hold, for every worker, the kernel, its type parameter   *)
(* and how far the call has come; the steps of the workers interleave.     *)

NumWorkers == 2

Workers == 1..NumWorkers

\* upper of a batch, of a scalar and of an Int64 batch; left of a batch and
\* with an Int32 count; concat of two batches around a scalar, and of a batch
\* next to an Int64 batch whose second row is not null
WorkerCalls ==
    << [f |-> "upper", T |-> "none",
        as |-> <<ArrayCV("Utf8", <<Some(<<97, 66>>), None>>)>>],
       [f |-> "upper", T |-> "none", as |-> <<ScalarCV("Utf8", Some(<<97>>))>>],
       [f |-> "upper", T |-> "none", as |-> <<ArrayCV("Int64", <<Some(I64(1))>>)>>],
       [f |-> "left", T |-> "Utf8",
        as |-> <<Array("Utf8", <<Some(<<97, 98>>), Some(<<98, 97>>)>>),
                 Array("Int64", <<Some(I64(1)), Some(I64(-1))>>)>>],
       [f |-> "left", T |-> "Utf8",
        as |-> <<Array("Utf8", <<Some(<<97, 98>>)>>),
                 Array("Int32", <<Some(I64(1))>>)>>],
       [f |-> "concat", T |-> "none",
        as |-> <<ArrayCV("Utf8", <<Some(<<97>>), None>>),
                 ScalarCV("Utf8", Some(<<44>>)),
                 ArrayCV("Utf8", <<Some(<<98>>), Some(<<99>>)>>)>>],
       [f |-> "concat", T |-> "none",
        as |-> <<ArrayCV("Utf8", <<None, Some(<<97>>)>>),
                 ArrayCV("Int64", <<None, Some(I64(1))>>)>>] >>

InitWorkers ==
    /\ fn = [t \in Workers |-> "none"]
    /\ tp = [t \in Workers |-> "none"]
    /\ args = [k \in DOMAIN WorkerCalls |-> WorkerCalls[k].as]
    /\ res = [t \in Workers |-> [tag |-> "None"]]

\* the outcome of the code before the first row: a return, or the row loop
Prologue(f, T, as) ==
    IF f = "concat"
    THEN IF as = <<>> \/ FirstArrayLen(as) = None THEN concat(as)
         ELSE [tag |-> "Rows"]
    ELSE IF f = "left"
    THEN IF Len(as) < 2 \/ as[1].dt # T \/ as[2].dt # "Int64" THEN left(T, as, FALSE)
         ELSE [tag |-> "Rows"]
    ELSE IF Len(as) < 1 \/ as[1].cv # "Array" \/ ~(as[1].dt \in {"Utf8", "LargeUtf8"})
         THEN handle(as, f)
         ELSE [tag |-> "Rows"]

\* the number of rows the loop goes through
Size(f, as) == IF f = "concat" THEN Unwrap(FirstArrayLen(as)) ELSE Len(as[1].rows)

\* the closure of the row loop at row index; no input of the workers holds
\* i64::MIN, so left is the same with and without overflow checks
Closure(f, as, index) ==
    IF f = "concat" THEN ConcatRowLoop(as, index, 1, <<>>)
    ELSE IF f = "left"
    THEN IF as[1].rows[index] = None \/ as[2].rows[index] = None THEN Ok(None)
         ELSE left_row(Unwrap(as[1].rows[index]), Unwrap(as[2].rows[index]), FALSE)
    ELSE Ok(IF IsSome(as[1].rows[index]) THEN Some(op(f, Unwrap(as[1].rows[index])))
            ELSE None)

\* the batch collected from the rows
Collected(f, T, as, rows) ==
    IF f = "concat" THEN Ok(ArrayCV("Utf8", rows))
    ELSE IF f = "left" THEN Ok(Array(T, rows))
    ELSE Ok(ArrayCV(as[1].dt, rows))

\* an iterator that takes the value out of the row it visits
iter_Taking(array, index) ==
    IF "rows" \in DOMAIN array THEN [array EXCEPT !.rows[index] = None] ELSE array

\* the argument after the iterator has visited row index: iter() borrows
iter(array, index) == array

\* a row position kept in one place for all workers that are in their loop
position_Shared(progress, t) ==
    LET at == {Len(progress[u].rows) : u \in {v \in Workers : progress[v].tag = "Rows"}}
    IN  1 + CHOOSE n \in at : \A o \in at : n <= o

\* the row the loop of worker t is at: the position of its own iterator
position(progress, t) == 1 + Len(progress[t].rows)

Enter(t) ==
    /\ fn[t] = "none"
    /\ \E k \in DOMAIN WorkerCalls :
          LET c == WorkerCalls[k]
              p == Prologue(c.f, c.T, args[k])
          IN  /\ fn' = [fn EXCEPT ![t] = c.f]
              /\ tp' = [tp EXCEPT ![t] = c.T]
              /\ res' = [res EXCEPT ![t] =
                            IF p.tag = "Rows" THEN [tag |-> "Rows", of |-> k, rows |-> <<>>]
                            ELSE [tag |-> "Done", of |-> k, out |-> p]]
              /\ UNCHANGED args

Row(t) ==
    /\ res[t].tag = "Rows"
    /\ Len(res[t].rows) < Size(fn[t], args[res[t].of])
    /\ LET k == res[t].of
           index == position(res, t)
           one == Closure(fn[t], args[k], index)
       IN  /\ res' = [res EXCEPT ![t] =
                         IF one.tag = "Ok" THEN [@ EXCEPT !.rows = Append(@, one.val)]
                         ELSE [tag |-> "Done", of |-> k, out |-> one]]
           /\ args' = [args EXCEPT ![k] = [j \in DOMAIN @ |-> iter(@[j], index)]]
           /\ UNCHANGED <<fn, tp>>

Return(t) ==
    /\ res[t].tag = "Rows"
    /\ Len(res[t].rows) = Size(fn[t], args[res[t].of])
    /\ res' = [res EXCEPT ![t] =
                  [tag |-> "Done", of |-> res[t].of,
                   out |-> Collected(fn[t], tp[t], args[res[t].of], res[t].rows)]]
    /\ UNCHANGED <<fn, tp, args>>

NextWorkers == \E t \in Workers : Enter(t) \/ Row(t) \/ Return(t)

SpecWorkers == InitWorkers /\ [][NextWorkers]_vars

(* repeat alone, over one-row batches.                                     *)

RepeatLen == 2

\* the strings of "P" and "g" of up to RepeatLen characters
RepeatStrs == Strings({80, 103}, RepeatLen)

\* -2, ..., RepeatLen + 1 and i64::MIN
RepeatNums == {I64(n) : n \in -2..(RepeatLen + 1)} \cup {MinI64}

RepeatOneRowCalls ==
    UNION {CallsOf(T, OneRow(T, RepeatStrs) \X OneRow("Int64", RepeatNums)) :
           T \in {"Utf8", "LargeUtf8"}}

NextRepeat == CallRepeat(RepeatOneRowCalls)

SpecRepeat == Init /\ [][NextRepeat]_vars

----------------------------------------------------------------------------
(* What the claims say, stated apart from the kernels' code. *)

\* the pieces joined, the separator between each two
RECURSIVE Join(_, _)
Join(sep, ss) ==
    IF ss = <<>> THEN <<>>
    ELSE IF Len(ss) = 1 THEN ss[1]
    ELSE ss[1] \o sep \o Join(sep, Tail(ss))

\* the value of a columnar value at a row
ValueAt(a, i) == IF a.cv = "Scalar" THEN a.val ELSE a.rows[i]

\* the non-null values of a sequence of options, in order
Present(os) ==
    LET some == SelectSeq(os, IsSome) IN [k \in 1..Len(some) |-> Unwrap(some[k])]

\* the non-null values of arguments 1..N of a concat_ws call at a row
WsPieces(as, i) == Present([k \in 1..(Len(as) - 1) |-> as[k + 1].rows[i]])

\* the non-null values of the arguments of a concat call at a row
ConcatPieces(as, i) == Present([k \in 1..Len(as) |-> ValueAt(as[k], i)])

\* a string without the characters of another
Without(s, chars) == SelectSeq(s, LAMBDA c : \A j \in 1..Len(chars) : chars[j] # c)

Chars(ss) == UNION {{s[j] : j \in 1..Len(s)} : s \in {ss[k] : k \in 1..Len(ss)}}

----------------------------------------------------------------------------
(* C1: concat_ws, at every row whose separator is non-null, gives the      *)
(* non-null values of arguments 1..N in argument order with the separator  *)
(* between each two of them and nowhere else, so never after the last one, *)
(* also when the last argument is null at that row.                        *)
C1_SeparatorOnlyBetween ==
    (fn = "concat_ws" /\ res.tag = "Ok") =>
        \A i \in 1..Len(res.val.rows) :
            IsSome(args[1].rows[i]) =>
                res.val.rows[i] = Some(Join(Unwrap(args[1].rows[i]), WsPieces(args, i)))

(* C2: chr, for every non-null row i: i = 0 fails the call with the        *)
(* execution fault "null character not permitted"; an i that is no Unicode *)
(* character (negative, a surrogate, above U+10FFFF, or not fitting 32     *)
(* bits) fails it with "requested character too large"; otherwise the row  *)
(* is the one-character string of code point i.  A fault on any row fails  *)
(* the whole call.                                                         *)
C2_ChrFaultsOrCharacter ==
    (fn = "chr" /\ Len(args) = 1 /\ args[1].dt = "Int64") =>
        LET rows == args[1].rows
            IsChar(x) == Hi(x) = 0 /\ 0 <= Lo(x) /\ Lo(x) <= 1114111
                            /\ ~(Lo(x) \in 55296..57343)
            Fault(o) == IF o = None THEN None
                        ELSE IF Unwrap(o) = I64(0)
                        THEN Some("null character not permitted.")
                        ELSE IF ~IsChar(Unwrap(o))
                        THEN Some("requested character too large for encoding.")
                        ELSE None
            faults == {Unwrap(Fault(rows[i])) : i \in {j \in 1..Len(rows) : IsSome(Fault(rows[j]))}}
        IN  IF faults # {}
            THEN res.tag = "Execution" /\ res.msg \in faults
            ELSE /\ res.tag = "Ok"
                 /\ Len(res.val.rows) = Len(rows)
                 /\ \A i \in 1..Len(rows) :
                       res.val.rows[i] =
                           IF rows[i] = None THEN None ELSE Some(<<Lo(Unwrap(rows[i]))>>)

(* C3: upper and lower fail with an internal error whenever the argument   *)
(* list does not hold exactly one argument, and whenever the argument,     *)
(* batch or scalar, is neither Utf8 nor LargeUtf8; they never ignore an    *)
(* extra argument and never abort.                                         *)
C3_HandleRejectsBadCalls ==
    (fn \in {"upper", "lower"}) =>
        /\ res.tag # "Panic"
        /\ (Len(args) # 1 \/ ~(args[1].dt \in {"Utf8", "LargeUtf8"}))
              => res.tag = "Internal"

(* C6: to_hex, for every non-null integer of the supported widths, negative*)
(* ones included, returns without fault the lowercase hexadecimal digits of*)
(* the value taken as unsigned, without leading zeros.                     *)
C6_ToHexUnsigned ==
    (fn = "to_hex" /\ Len(args) = 1 /\ args[1].dt = tp) =>
        /\ res.tag = "Ok"
        /\ Len(res.val.rows) = Len(args[1].rows)
        /\ \A i \in 1..Len(res.val.rows) :
              LET x == args[1].rows[i] IN
              res.val.rows[i] =
                  IF x = None THEN None
                  ELSE Some(StripZeros(IF tp = "Int64"
                                       THEN HexPad8(Hi(Unwrap(x))) \o HexPad8(Lo(Unwrap(x)))
                                       ELSE HexPad8(Lo(Unwrap(x)))))

(* C7 as stated: reverse(reverse(s)) = s for all strings s.                *)
C7_ReverseInvolution ==
    (fn = "reverse" /\ res.tag = "Ok") =>
        \A i \in 1..Len(res.val.rows) :
            IsSome(args[1].rows[i]) =>
                reverse_row(Unwrap(res.val.rows[i])) = Unwrap(args[1].rows[i])

(* C7 as amended: reverse gives the grapheme clusters of s in reverse      *)
(* order, each cluster's content intact, and reverse(reverse(s)) = s for   *)
(* every s whose clusters, written in reverse order, segment again into    *)
(* those same clusters.                                                    *)
C7_ReverseInvolutionWhenStable ==
    (fn = "reverse" /\ res.tag = "Ok") =>
        \A i \in 1..Len(res.val.rows) :
            IsSome(args[1].rows[i]) =>
                LET s == Unwrap(args[1].rows[i])
                    out == Unwrap(res.val.rows[i])
                    clusters == graphemes(s)
                    reversed == [k \in 1..Len(clusters) |-> clusters[Len(clusters) + 1 - k]]
                IN  /\ out = Flatten(reversed)
                    /\ graphemes(Flatten(reversed)) = reversed
                          => reverse_row(out) = s

\* reverse of "a", U+0301, "b": two clusters, the first of two code points
C7_Witness ==
    /\ fn = "reverse" /\ res.tag = "Ok"
    /\ args[1].rows = <<Some(<<97, 769, 98>>)>>
    /\ res.val.rows = <<Some(<<98, 97, 769>>)>>
    /\ reverse_row(<<98, 97, 769>>) = <<97, 769, 98>>

(* C9: concat never gives a null: every row of the batch path, and the     *)
(* scalar of the all-scalar path, is the concatenation in argument order   *)
(* of the non-null argument values there, the empty string when all are    *)
(* null.                                                                   *)
C9_ConcatSkipsNulls ==
    (fn = "concat" /\ res.tag = "Ok") =>
        IF \E k \in 1..Len(args) : args[k].cv = "Array"
        THEN /\ res.val.cv = "Array"
             /\ \A i \in 1..Len(res.val.rows) :
                    res.val.rows[i] = Some(Flatten(ConcatPieces(args, i)))
        ELSE /\ res.val.cv = "Scalar"
             /\ res.val.val = Some(Flatten(ConcatPieces(args, 1)))

\* a concat call over a batch with a null and a non-null value in one row
C9_Witness ==
    /\ fn = "concat" /\ res.tag = "Ok" /\ Len(args) = 3
    /\ args[1].cv = "Array" /\ Len(args[1].rows) = 1
    /\ args[1].rows[1] = None
    /\ args[2] = ScalarCV("Utf8", Some(<<97>>))
    /\ args[3] = ScalarCV("Utf8", None)
    /\ res.val.rows = <<Some(<<97>>)>>

(* C10: a concat_ws row is null exactly when its separator is null; with a *)
(* non-null separator the null values of arguments 1..N are skipped: all of*)
(* them null gives the empty string, and taking the separator's characters *)
(* out of the row leaves the non-null values in argument order.            *)
C10_ConcatWsNullPolicy ==
    (fn = "concat_ws" /\ res.tag = "Ok") =>
        /\ Len(res.val.rows) = Len(args[1].rows)
        /\ \A i \in 1..Len(res.val.rows) :
              LET sep == args[1].rows[i]
                  out == res.val.rows[i]
              IN  /\ (sep = None) <=> (out = None)
                  /\ (IsSome(sep) /\ WsPieces(args, i) = <<>>) => out = Some(<<>>)
                  /\ (IsSome(sep) /\ Chars(<<Unwrap(sep)>>) \cap Chars(WsPieces(args, i)) = {})
                        => Without(Unwrap(out), Unwrap(sep)) = Flatten(WsPieces(args, i))

\* a concat_ws call with a non-null separator, a null value and two others
C10_Witness ==
    /\ fn = "concat_ws" /\ res.tag = "Ok" /\ Len(args) = 4
    /\ args[1].rows = <<Some(<<44>>)>>
    /\ args[2].rows = <<Some(<<97>>)>>
    /\ args[3].rows = <<None>>
    /\ args[4].rows = <<Some(<<98>>)>>
    /\ res.val.rows = <<Some(<<97, 44, 98>>)>>

(* The arities a kernel accepts, and the data types it accepts at each     *)
(* position of a call of type parameter T, as the claims list them.         *)
FixedArity ==
    [f \in {"ascii", "character_length", "chr", "initcap", "reverse", "to_hex",
            "left", "right", "repeat", "regexp_match", "regexp_extract"} |->
        IF f \in {"left", "right", "repeat", "regexp_match"} THEN 2
        ELSE IF f = "regexp_extract" THEN 3
        ELSE 1]

RightArity(f, n) ==
    IF f \in DOMAIN FixedArity THEN n = FixedArity[f]
    ELSE IF f \in {"upper", "lower"} THEN n = 1
    ELSE IF f \in {"btrim", "ltrim", "rtrim"} THEN n \in {1, 2}
    ELSE IF f \in {"lpad", "rpad", "substr"} THEN n \in {2, 3}
    ELSE IF f = "concat" THEN n >= 1
    ELSE f = "concat_ws" /\ n >= 2

Expected(f, T, k) ==
    IF f \in {"concat", "concat_ws"} THEN {"Utf8"}
    ELSE IF f \in {"upper", "lower"} THEN {"Utf8", "LargeUtf8"}
    ELSE IF f = "chr" THEN {"Int64"}
    ELSE IF f = "to_hex" THEN {T}
    ELSE IF f = "character_length" THEN {StringTypeOf(T)}
    ELSE IF f \in {"regexp_extract", "regexp_match"}
    THEN IF k = 1 THEN {"Utf8", "LargeUtf8"} ELSE IF k = 2 THEN {"Utf8"} ELSE {"Int64"}
    ELSE IF k = 2 /\ f \in {"left", "right", "repeat", "lpad", "rpad", "substr"}
    THEN {"Int64"}
    ELSE IF k = 3 /\ f = "substr" THEN {"Int64"}
    ELSE {T}

RightTypes(f, T, as) == \A k \in 1..Len(as) : as[k].dt \in Expected(f, T, k)

\* the input of argument k at row i is null
NullAt(as, k, i) ==
    IF "cv" \in DOMAIN as[k] /\ as[k].cv = "Scalar" THEN as[k].val = None
    ELSE i <= Len(as[k].rows) /\ as[k].rows[i] = None

(* C4: a fixed-arity kernel called with fewer or more arguments than its   *)
(* arity returns an internal error; it neither aborts on a missing         *)
(* argument nor ignores surplus ones.                                      *)
C4_FixedArityRevalidated ==
    (fn \in DOMAIN FixedArity /\ Len(args) # FixedArity[fn]) => res.tag = "Internal"

(* C5: a call of the right arity with, at some position, a value whose     *)
(* data type is not the one the kernel expects there returns an internal   *)
(* error; it neither aborts nor goes through.                              *)
C5_WrongTypeIsInternalError ==
    (fn # "none" /\ RightArity(fn, Len(args)) /\ ~RightTypes(fn, tp, args))
        => res.tag = "Internal"

(* C8: for the null-propagating kernels, called with the right arity and   *)
(* types, a row at which any input is null raises no fault whatever the    *)
(* other inputs at that row are, and is null in the output the call gives. *)
C8_NullPropagation ==
    (/\ fn \in {"ascii", "character_length", "chr", "initcap", "lower", "upper",
                "reverse", "to_hex", "btrim", "ltrim", "rtrim", "left", "right",
                "lpad", "rpad", "repeat", "substr"}
     /\ RightArity(fn, Len(args)) /\ RightTypes(fn, tp, args)) =>
        LET scalar == "cv" \in DOMAIN args[1] /\ args[1].cv = "Scalar"
            n == IF scalar THEN 1 ELSE Len(args[1].rows)
            nullrow(i) == \E k \in 1..Len(args) : NullAt(args, k, i)
        IN  /\ (\A i \in 1..n : nullrow(i)) => res.tag = "Ok"
            /\ res.tag = "Ok" =>
                  IF scalar THEN nullrow(1) => res.val.val = None
                  ELSE /\ Len(res.val.rows) = n
                       /\ \A i \in 1..n : nullrow(i) => res.val.rows[i] = None

\* a substr call whose row 1 has a null string next to a negative count, and
\* whose row 2 has neither null nor fault
C8_Witness ==
    /\ fn = "substr" /\ Len(args) = 3 /\ res.tag = "Ok"
    /\ Len(args[1].rows) = 2
    /\ args[1].rows[1] = None
    /\ args[3].rows[1] = Some(I64(-1))
    /\ res.val.rows[1] = None
    /\ IsSome(res.val.rows[2])

IsBatch(a) == a.cv = "Array"

\* the call with every one-row batch replaced by the scalar of its value
ToScalars(as) ==
    [k \in DOMAIN as |-> IF IsBatch(as[k]) THEN ScalarCV(as[k].dt, as[k].rows[1])
                         ELSE as[k]]

\* a dual-mode kernel by name
Dual(f, as) ==
    IF f = "concat" THEN concat(as) ELSE IF f = "lower" THEN lower(as) ELSE upper(as)

(* C11: a successful concat, lower or upper call whose arguments are all   *)
(* scalars gives a scalar; one with a batch among its arguments, at any    *)
(* position, gives a batch with the row count of that batch.               *)
C11_OutputShape ==
    (fn \in {"concat", "lower", "upper"} /\ RightArity(fn, Len(args)) /\ res.tag = "Ok") =>
        IF \A k \in 1..Len(args) : ~IsBatch(args[k])
        THEN res.val.cv = "Scalar"
        ELSE /\ res.val.cv = "Array"
             /\ \A k \in 1..Len(args) :
                   IsBatch(args[k]) => Len(res.val.rows) = Len(args[k].rows)

\* a concat call of a scalar, a one-row batch and a scalar
C11_Witness ==
    /\ fn = "concat" /\ res.tag = "Ok"
    /\ Len(args) = 3
    /\ ~IsBatch(args[1]) /\ IsBatch(args[2]) /\ ~IsBatch(args[3])
    /\ Len(args[2].rows) = 1
    /\ res.val.cv = "Array" /\ Len(res.val.rows) = 1

(* C12: a dual-mode kernel called with one-row batches (for concat, in any *)
(* mix with scalars) succeeds exactly when the call with the batches       *)
(* replaced by scalars of the same values does, and the one row of its     *)
(* result is the scalar that call gives, null included.                    *)
C12_ScalarBatchEquivalence ==
    (/\ fn \in {"concat", "lower", "upper"} /\ RightArity(fn, Len(args))
     /\ \E k \in 1..Len(args) : IsBatch(args[k])
     /\ \A k \in 1..Len(args) : IsBatch(args[k]) => Len(args[k].rows) = 1) =>
        LET single == Dual(fn, ToScalars(args))
        IN  /\ res.tag = single.tag
            /\ res.tag = "Ok" =>
                  /\ single.val.cv = "Scalar" /\ res.val.cv = "Array"
                  /\ res.val.dt = single.val.dt
                  /\ res.val.rows = <<single.val.val>>

\* a concat call of a null scalar, a one-row batch and a scalar
C12_Witness ==
    /\ fn = "concat" /\ res.tag = "Ok" /\ Len(args) = 3
    /\ args[1] = ScalarCV("Utf8", None)
    /\ args[2] = ArrayCV("Utf8", <<Some(<<97>>)>>)
    /\ args[3] = ScalarCV("Utf8", Some(<<98>>))
    /\ res.val.rows = <<Some(<<97, 98>>)>>
    /\ concat(ToScalars(args)) = Ok(ScalarCV("Utf8", Some(<<97, 98>>)))

\* rows i of a call where every argument is non-null
NonNullRows(as) ==
    {i \in 1..Len(as[1].rows) : \A k \in 1..Len(as) : IsSome(as[k].rows[i])}

\* the value of argument k at row i
Val(as, k, i) == Unwrap(as[k].rows[i])

(* C13: a 3-argument substr call with a row whose string, start and count  *)
(* are non-null and whose count is negative fails as a whole with the      *)
(* execution fault "negative substring length not allowed", whatever the   *)
(* start of that row and whatever the other rows hold.                     *)
C13_NegativeCountFails ==
    (/\ fn = "substr" /\ Len(args) = 3 /\ RightTypes(fn, tp, args)
     /\ \E i \in NonNullRows(args) : IsNegative(Val(args, 3, i))) =>
        res = Execution("negative substring length not allowed")

\* a 2-row substr call whose first row is in order and whose second row has a
\* negative start next to a negative count
C13_Witness ==
    /\ fn = "substr" /\ Len(args) = 3 /\ Len(args[1].rows) = 2
    /\ NonNullRows(args) = {1, 2}
    /\ Val(args, 2, 1) = I64(2) /\ Val(args, 3, 1) = I64(2)
    /\ Val(args, 2, 2) = I64(-1) /\ Val(args, 3, 2) = I64(-1)
    /\ res.tag = "Execution"

\* x <= 0, and x > L for a length L
AtMostZero(x) == IsNegative(x) \/ IsZero(x)

Beyond(x, L) == ~AtMostZero(x) /\ (~IsSmall(x) \/ Lo(x) > L)

\* clusters from..to of a string, as a string
Clusters(string, from, to) == Flatten(SubSeq(graphemes(string), from, to))

\* what the claim gives for substr(string, start) and substr(string, start, count)
SubstrFrom(string, start) ==
    LET L == Len(graphemes(string)) IN
    IF AtMostZero(start) THEN string
    ELSE IF Beyond(start, L) THEN <<>>
    ELSE Clusters(string, Lo(start), L)

SubstrFor(string, start, count) ==
    LET L == Len(graphemes(string)) IN
    IF AtMostZero(start) THEN string
    ELSE IF Beyond(start, L) THEN <<>>
    ELSE IF ~IsSmall(count) \/ Lo(start) + Lo(count) - 1 > L
    THEN Clusters(string, Lo(start), L)
    ELSE Clusters(string, Lo(start), Lo(start) + Lo(count) - 1)

(* C14: substr of a non-null string, with positions counted in grapheme    *)
(* clusters: the 2-argument form gives the whole string for start <= 0, the*)
(* empty string for start beyond the string, otherwise the clusters from   *)
(* start on; the 3-argument form with count >= 0 gives the whole string for*)
(* start <= 0, the empty string for start beyond the string, the rest from *)
(* start when start + count runs past the end, otherwise count clusters    *)
(* from start.                                                             *)
C14_SubstrResult ==
    (/\ fn = "substr" /\ Len(args) \in {2, 3} /\ RightTypes(fn, tp, args)
     /\ \A i \in NonNullRows(args) : Len(args) = 3 => ~IsNegative(Val(args, 3, i))) =>
        /\ res.tag = "Ok"
        /\ \A i \in NonNullRows(args) :
              res.val.rows[i] =
                  Some(IF Len(args) = 2
                       THEN SubstrFrom(Val(args, 1, i), Val(args, 2, i))
                       ELSE SubstrFor(Val(args, 1, i), Val(args, 2, i), Val(args, 3, i)))

\* substr("a" U+0301 "a", 2, 1) gives the second cluster, "a"
C14_Witness ==
    /\ fn = "substr" /\ Len(args) = 3
    /\ args[1].rows = <<Some(<<97, 769, 97>>)>>
    /\ args[2].rows = <<Some(I64(2))>>
    /\ args[3].rows = <<Some(I64(1))>>
    /\ res.tag = "Ok"
    /\ res.val.rows = <<Some(<<97>>)>>

\* x is negative and above -2^31, and Lo gives it
IsSmallNegative(x) == Hi(x) = -1 /\ Lo(x) < 0

\* what the claims give for left(string, n) and right(string, n)
LeftOf(string, n) ==
    LET L == Len(graphemes(string)) IN
    IF IsZero(n) THEN <<>>
    ELSE IF ~IsNegative(n)
    THEN IF IsSmall(n) /\ Lo(n) < L THEN Clusters(string, 1, Lo(n)) ELSE string
    ELSE IF IsSmallNegative(n) /\ -Lo(n) < L THEN Clusters(string, 1, L + Lo(n))
    ELSE <<>>

RightOf(string, n) ==
    LET L == Len(graphemes(string)) IN
    IF IsZero(n) THEN <<>>
    ELSE IF ~IsNegative(n)
    THEN IF IsSmall(n) /\ Lo(n) < L THEN Clusters(string, L - Lo(n) + 1, L) ELSE string
    ELSE IF IsSmallNegative(n) /\ -Lo(n) < L THEN Clusters(string, 1 - Lo(n), L)
    ELSE <<>>

(* C15: left(s, n) of non-null s of L clusters and non-null n gives the    *)
(* empty string for n = 0, the first n clusters for 0 < n < L, s for       *)
(* n >= L, the first L - |n| clusters for -L < n < 0, and the empty string *)
(* for n <= -L.                                                            *)
C15_LeftResult ==
    (fn = "left" /\ Len(args) = 2 /\ RightTypes(fn, tp, args)) =>
        /\ res.tag = "Ok"
        /\ \A i \in NonNullRows(args) :
              res.val.rows[i] = Some(LeftOf(Val(args, 1, i), Val(args, 2, i)))

(* C16: right(s, n) of non-null s of L clusters and non-null n gives the   *)
(* empty string for n = 0, the last n clusters for 0 < n < L, s for n >= L,*)
(* the last L - |n| clusters for -L < n < 0, and the empty string for      *)
(* n <= -L.                                                                *)
C16_RightResult ==
    (fn = "right" /\ Len(args) = 2 /\ RightTypes(fn, tp, args)) =>
        /\ res.tag = "Ok"
        /\ \A i \in NonNullRows(args) :
              res.val.rows[i] = Some(RightOf(Val(args, 1, i), Val(args, 2, i)))

\* the fill of a pad call at row i: a space in the 2-argument form
FillAt(as, i) == IF Len(as) = 2 THEN <<32>> ELSE Val(as, 3, i)

\* a pad call of 2 or 3 arguments of the right types whose lengths are 0 or more
PadCall ==
    /\ fn \in {"lpad", "rpad"} /\ Len(args) \in {2, 3} /\ RightTypes(fn, tp, args)
    /\ \A i \in NonNullRows(args) : IsSmall(Val(args, 2, i))

(* C17: lpad and rpad of non-null inputs with a length of 0 or more give   *)
(* the empty string for length 0, the first `length` clusters of a string  *)
(* of more clusters, the string itself when it has `length` clusters, and  *)
(* in the 3-argument form the string itself when it is shorter and the     *)
(* fill is empty.                                                          *)
C17_PadTruncates ==
    PadCall =>
        /\ res.tag = "Ok"
        /\ \A i \in NonNullRows(args) :
              LET string == Val(args, 1, i)
                  length == Lo(Val(args, 2, i))
                  L == Len(graphemes(string))
                  out == res.val.rows[i]
              IN  /\ length = 0 => out = Some(<<>>)
                  /\ length < L => out = Some(Clusters(string, 1, length))
                  /\ length = L => out = Some(string)
                  /\ (length > L /\ FillAt(args, i) = <<>>) => out = Some(string)

\* rpad("a" U+0301 "a", 1, "x") gives the first cluster, "a" U+0301
C17_Witness ==
    /\ fn = "rpad" /\ Len(args) = 3 /\ res.tag = "Ok"
    /\ args[1].rows = <<Some(<<97, 769, 97>>)>>
    /\ args[2].rows = <<Some(I64(1))>>
    /\ args[3].rows = <<Some(<<120>>)>>
    /\ res.val.rows = <<Some(<<97, 769>>)>>

(* C18: lpad and rpad of a string of fewer clusters than the length, with a*)
(* non-empty fill, give the string preceded (lpad) or followed (rpad) by   *)
(* the fill repeated from its first character, and the result has exactly  *)
(* `length` grapheme clusters.                                             *)
C18_PadFillsGap ==
    (PadCall /\ res.tag = "Ok") =>
        \A i \in NonNullRows(args) :
            LET string == Val(args, 1, i)
                length == Lo(Val(args, 2, i))
                fill == FillAt(args, i)
                out == Unwrap(res.val.rows[i])
                gap == Len(out) - Len(string)
            IN  (length > Len(graphemes(string)) /\ fill # <<>>) =>
                    /\ gap >= 0
                    /\ out = IF fn = "lpad" THEN Cycle(fill, gap) \o string
                             ELSE string \o Cycle(fill, gap)
                    /\ Len(graphemes(out)) = length

\* the internal errors the kernels give for a wrong number of arguments
ArityFault(r) ==
    /\ r.tag = "Internal"
    /\ r.msg \in
         {"concat was called with 0 arguments. It requires at least 1.",
          "concat_ws was called with too few arguments. It requires at least 2.",
          "trim was called with a wrong number of arguments. It requires at least 1 and at most 2.",
          "pad was called with a wrong number of arguments. It requires at least 2 and at most 3.",
          "substr was called with a wrong number of arguments. It requires 2 or 3."}

(* C19: concat, concat_ws, btrim, ltrim, rtrim, lpad, rpad and substr      *)
(* return an internal error whenever the number of arguments is outside    *)
(* the kernel's range, whatever the arguments hold, and never give the     *)
(* error of a wrong argument count when the number is inside it.           *)
C19_RangedArityFaults ==
    (fn \in {"concat", "concat_ws", "btrim", "ltrim", "rtrim", "lpad", "rpad", "substr"}) =>
        IF RightArity(fn, Len(args)) THEN ~ArityFault(res) ELSE res.tag = "Internal"

\* a btrim call of 3 one-row batches
C19_Witness ==
    /\ fn = "btrim" /\ Len(args) = 3
    /\ \A k \in 1..3 : Len(args[k].rows) = 1 /\ IsSome(args[k].rows[1])
    /\ ArityFault(res)

\* a kernel by name; a successful left or right call gives the same batch
\* with and without overflow checks
Kernel(f, T, as) ==
    CASE f = "ascii" -> ascii(T, as)
      [] f = "btrim" -> btrim(T, as)
      [] f = "character_length" -> character_length(T, as)
      [] f = "chr" -> chr(as)
      [] f = "concat" -> concat(as)
      [] f = "concat_ws" -> concat_ws(as)
      [] f = "initcap" -> initcap(T, as)
      [] f = "left" -> left(T, as, FALSE)
      [] f = "lower" -> lower(as)
      [] f = "lpad" -> lpad(T, as)
      [] f = "ltrim" -> ltrim(T, as)
      [] f = "regexp_extract" -> regexp_extract(as)
      [] f = "regexp_match" -> regexp_match(as)
      [] f = "repeat" -> repeat(T, as)
      [] f = "reverse" -> reverse(T, as)
      [] f = "right" -> right(T, as, FALSE)
      [] f = "rpad" -> rpad(T, as)
      [] f = "rtrim" -> rtrim(T, as)
      [] f = "substr" -> substr(T, as)
      [] f = "to_hex" -> to_hex(T, as)
      [] OTHER -> upper(as)

IsScalar(a) == "cv" \in DOMAIN a /\ a.cv = "Scalar"

\* row i of an argument as a batch of one row; a scalar as it is
RowOf(a, i) == IF IsScalar(a) THEN a ELSE [a EXCEPT !.rows = <<a.rows[i]>>]

\* the call made of row i of every argument
RowCall(as, i) == [k \in DOMAIN as |-> RowOf(as[k], i)]

\* the call made of row i of the first argument and row 0 of the others
RowCallFirst(as, i) == [k \in DOMAIN as |-> RowOf(as[k], IF k = 1 THEN i ELSE 1)]

\* a successful call of the right arity with a batch among its arguments, all
\* batches of N rows
BatchCallOk(N) ==
    /\ fn # "none" /\ RightArity(fn, Len(args)) /\ res.tag = "Ok"
    /\ \E k \in 1..Len(args) : ~IsScalar(args[k])
    /\ \A k \in 1..Len(args) : ~IsScalar(args[k]) => Len(args[k].rows) = N

\* output row i is the row the kernel gives for the one-row call
RowIs(i, call) ==
    LET one == Kernel(fn, tp, call)
    IN  one.tag = "Ok" /\ one.val.rows = <<res.val.rows[i]>>

TextsOf(a) ==
    IF IsScalar(a) THEN (IF IsSome(a.val) THEN <<a.val[1]>> ELSE <<>>)
    ELSE [i \in 1..Len(a.rows) |-> IF IsSome(a.rows[i]) THEN a.rows[i][1] ELSE <<-1>>]

\* out is string with its ASCII letters, and nothing else, put in the case of f
FoldedAscii(f, string, out) ==
    /\ Len(out) = Len(string)
    /\ \A j \in 1..Len(string) :
          out[j] = IF f = "upper" /\ string[j] \in 97..122 THEN string[j] - 32
                   ELSE IF f = "lower" /\ string[j] \in 65..90 THEN string[j] + 32
                   ELSE string[j]

(* C21: upper and lower change the ASCII letters of the other case and     *)
(* nothing else, keep the length, and applied to their own result give     *)
(* that result again.                                                      *)
C21_AsciiFoldIdempotent ==
    (fn \in {"upper", "lower"} /\ Len(args) = 1 /\ res.tag = "Ok") =>
        /\ Len(TextsOf(res.val)) = Len(TextsOf(args[1]))
        /\ \A i \in 1..Len(TextsOf(args[1])) :
              IF TextsOf(args[1])[i] = <<-1>> THEN TextsOf(res.val)[i] = <<-1>>
              ELSE FoldedAscii(fn, TextsOf(args[1])[i], TextsOf(res.val)[i])
        /\ Dual(fn, <<res.val>>) = res

\* upper of a batch holding "aB" and U+00E9 "1"
C21_Witness ==
    /\ fn = "upper" /\ res.tag = "Ok" /\ Len(args) = 1 /\ ~IsScalar(args[1])
    /\ args[1].rows = <<Some(<<97, 66>>), Some(<<233, 49>>)>>
    /\ res.val.rows = <<Some(<<65, 66>>), Some(<<233, 49>>)>>

\* the length of the longest prefix of string whose characters are all in set
LeadRun(string, set) ==
    CHOOSE k \in 0..Len(string) :
        /\ \A j \in 1..k : string[j] \in set
        /\ k < Len(string) => string[k + 1] \notin set

\* the length of the longest suffix of string whose characters are all in set
TrailRun(string, set) ==
    CHOOSE k \in 0..Len(string) :
        /\ \A j \in (Len(string) - k + 1)..Len(string) : string[j] \in set
        /\ k < Len(string) => string[Len(string) - k] \notin set

StripStart(string, set) == SubSeq(string, LeadRun(string, set) + 1, Len(string))

StripEnd(string, set) == SubSeq(string, 1, Len(string) - TrailRun(string, set))

Stripped(f, string, set) ==
    CASE f = "ltrim" -> StripStart(string, set)
      [] f = "rtrim" -> StripEnd(string, set)
      [] OTHER -> StripEnd(StripStart(string, set), set)

(* C22: with one argument btrim, ltrim and rtrim remove the longest run    *)
(* of U+0020 and of nothing else from both ends, the start, the end; with  *)
(* two arguments the longest run of characters that occur in the second    *)
(* argument, which is no character when the second argument is empty.      *)
C22_TrimRemovesRun ==
    (fn \in {"btrim", "ltrim", "rtrim"} /\ RightTypes(fn, tp, args)
     /\ Len(args) \in {1, 2}) =>
        /\ res.tag = "Ok"
        /\ Len(res.val.rows) = Len(args[1].rows)
        /\ \A i \in NonNullRows(args) :
              /\ res.val.rows[i] =
                    Some(Stripped(fn, Val(args, 1, i),
                                  IF Len(args) = 1 THEN {32}
                                  ELSE CharSet(Val(args, 2, i))))
              /\ (Len(args) = 2 /\ Val(args, 2, i) = <<>>) =>
                    res.val.rows[i] = args[1].rows[i]

\* btrim of space tab space gives the tab
C22_Witness ==
    /\ fn = "btrim" /\ Len(args) = 1 /\ res.tag = "Ok"
    /\ args[1].rows = <<Some(<<32, 9, 32>>)>>
    /\ res.val.rows = <<Some(<<9>>)>>

\* an ASCII letter or digit
WordChar(c) == c \in 48..57 \/ c \in 65..90 \/ c \in 97..122

\* position j of string starts a maximal run of ASCII letters and digits
RunStart(string, j) == WordChar(string[j]) /\ (j = 1 \/ ~WordChar(string[j - 1]))

(* C23: initcap returns, for a non-null string, a string of as many        *)
(* characters in which the first character of every maximal run of ASCII   *)
(* letters and digits is in upper case, the other characters of the run    *)
(* are in lower case and every character outside the runs is as it was.    *)
C23_InitcapRuns ==
    (fn = "initcap" /\ Len(args) = 1 /\ RightTypes(fn, tp, args)) =>
        /\ res.tag = "Ok"
        /\ Len(res.val.rows) = Len(args[1].rows)
        /\ \A i \in NonNullRows(args) :
              /\ IsSome(res.val.rows[i])
              /\ Len(Unwrap(res.val.rows[i])) = Len(Val(args, 1, i))
              /\ \A j \in 1..Len(Val(args, 1, i)) :
                    Unwrap(res.val.rows[i])[j] =
                        IF ~WordChar(Val(args, 1, i)[j]) THEN Val(args, 1, i)[j]
                        ELSE IF RunStart(Val(args, 1, i), j)
                        THEN (IF Val(args, 1, i)[j] \in 97..122
                              THEN Val(args, 1, i)[j] - 32 ELSE Val(args, 1, i)[j])
                        ELSE (IF Val(args, 1, i)[j] \in 65..90
                              THEN Val(args, 1, i)[j] + 32 ELSE Val(args, 1, i)[j])

\* initcap of "1aB" gives "1ab": the digit starts the run
C23_Witness ==
    /\ fn = "initcap" /\ res.tag = "Ok" /\ Len(args) = 1
    /\ args[1].rows = <<Some(<<49, 97, 66>>)>>
    /\ res.val.rows = <<Some(<<49, 97, 98>>)>>

\* a regexp call of the right number of arguments whose pattern and group
\* index are of the right type and have a row 0
RegexpCall ==
    /\ fn \in {"regexp_extract", "regexp_match"}
    /\ Len(args) = (IF fn = "regexp_extract" THEN 3 ELSE 2)
    /\ \A k \in 2..Len(args) :
          args[k].dt \in Expected(fn, tp, k) /\ Len(args[k].rows) >= 1

\* the arguments with row 0 of the pattern and of the group index in every row
Row0Everywhere(as) ==
    [k \in 1..Len(as) |->
        IF k = 1 THEN as[k]
        ELSE Array(as[k].dt, [i \in 1..Len(as[k].rows) |-> as[k].rows[1]])]

(* C24: a regexp_extract or regexp_match call whose pattern and group      *)
(* index have a row 0 gives what it gives with that row 0 in every row of  *)
(* the pattern and of the group index; where the text row is not null and  *)
(* the pattern of row 0 does not occur in it, regexp_extract gives null    *)
(* and regexp_match the empty list; a failure of the matching kernel is    *)
(* the outcome of the call.                                                *)
C24_PatternFromRowZero ==
    RegexpCall =>
        /\ res = Kernel(fn, tp, Row0Everywhere(args))
        /\ res.tag \in {"Ok", "ArrowError"}
        /\ res.tag = "ArrowError" <=> ~(args[1].dt \in {"Utf8", "LargeUtf8"})
        /\ res.tag = "Ok" =>
              /\ Len(res.val.rows) = Len(args[1].rows)
              /\ \A i \in 1..Len(args[1].rows) :
                    (IsSome(args[1].rows[i]) /\ IsSome(args[2].rows[1])
                     /\ ~Occurs(Unwrap(args[2].rows[1]), Unwrap(args[1].rows[i]))) =>
                        res.val.rows[i] =
                            IF fn = "regexp_extract" THEN None ELSE Some(<<>>)

\* regexp_match of "ab" and "a" with the patterns "b" and "a": both rows are
\* matched against "b", the second without a match
C24_Witness ==
    /\ fn = "regexp_match" /\ res.tag = "Ok" /\ Len(args) = 2
    /\ args[1].rows = <<Some(<<97, 98>>), Some(<<97>>)>>
    /\ args[2].rows = <<Some(<<98>>), Some(<<97>>)>>
    /\ res.val.rows = <<Some(<<(<<98>>)>>), Some(<<>>)>>

\* the inputs as they are before any worker has made a call
InputsBefore == [k \in DOMAIN WorkerCalls |-> WorkerCalls[k].as]

C26_SameAsAlone ==
    \A t \in Workers :
        res[t].tag = "Done" =>
            res[t].out = Kernel(fn[t], tp[t], InputsBefore[res[t].of])

\* worker 2 has gone through a whole call of concat while worker 1 is between
\* the rows of a call on the same input
C26_Witness ==
    /\ res[1].tag = "Rows" /\ res[1].of = 6 /\ Len(res[1].rows) = 1
    /\ res[2].tag = "Done" /\ res[2].of = 6
    /\ res[2].out = Ok(ArrayCV("Utf8", <<Some(<<97, 44, 98>>), Some(<<44, 99>>)>>))

(* C27: a successful chr call has no U+0000 in any row, and no two rows of *)
(* different non-null inputs hold the same character.                      *)
C27_ChrNeverNul ==
    (fn = "chr" /\ Len(args) = 1 /\ args[1].dt = "Int64" /\ res.tag = "Ok") =>
        /\ \A i \in NonNullRows(args) :
              \A j \in 1..Len(Unwrap(res.val.rows[i])) : Unwrap(res.val.rows[i])[j] # 0
        /\ \A i, j \in NonNullRows(args) :
              args[1].rows[i] # args[1].rows[j] => res.val.rows[i] # res.val.rows[j]

(* C28: left and right of a non-null string and any non-null n return a    *)
(* batch: the empty string for n < 0 with |n| at least the cluster count   *)
(* of the string, the string for n > 0 at least the cluster count.         *)
C28_SidesClampEveryN ==
    (fn \in {"left", "right"} /\ Len(args) = 2 /\ RightTypes(fn, tp, args)) =>
        /\ res.tag = "Ok"
        /\ \A i \in NonNullRows(args) :
              LET n == Val(args, 2, i)
                  L == Len(graphemes(Val(args, 1, i)))
              IN  /\ (IsNegative(n) /\ (~IsSmallNegative(n) \/ -Lo(n) >= L)) =>
                        res.val.rows[i] = Some(<<>>)
                  /\ (~IsNegative(n) /\ ~IsZero(n) /\ (~IsSmall(n) \/ Lo(n) >= L)) =>
                        res.val.rows[i] = args[1].rows[i]

(* C29: lpad and rpad of a non-null string, length and fill return a       *)
(* batch whose rows have at most max(length, 0) grapheme clusters; with a  *)
(* negative length the row is not longer than the string.                  *)
C29_PadNegativeLength ==
    (fn \in {"lpad", "rpad"} /\ Len(args) \in {2, 3} /\ RightTypes(fn, tp, args)) =>
        /\ res.tag = "Ok"
        /\ \A i \in NonNullRows(args) :
              LET length == Val(args, 2, i)
                  out == Unwrap(res.val.rows[i])
              IN  /\ IsNegative(length) =>
                        /\ Len(out) <= Len(Val(args, 1, i))
                        /\ Len(graphemes(out)) <= 0
                  /\ IsSmall(length) => Len(graphemes(out)) <= Lo(length)

(* C30: repeat(s, n) of non-null s and n returns s written max(n, 0)       *)
(* times: the empty string for n = 0 and for every negative n, s for       *)
(* n = 1.                                                                  *)
C30_RepeatWhole ==
    (fn = "repeat" /\ Len(args) = 2 /\ RightTypes(fn, tp, args)) =>
        /\ res.tag = "Ok"
        /\ \A i \in NonNullRows(args) :
              LET s == Val(args, 1, i)
                  n == Val(args, 2, i)
              IN  /\ IsNegative(n) => res.val.rows[i] = Some(<<>>)
                  /\ IsSmall(n) =>
                        /\ Len(Unwrap(res.val.rows[i])) = Lo(n) * Len(s)
                        /\ \A j \in 1..(Lo(n) * Len(s)) :
                              Unwrap(res.val.rows[i])[j] = s[((j - 1) % Len(s)) + 1]

=============================================================================
